---- MODULE Spec2Model ----
(***************************************************************************)
(* Verification model of the Ozon reporting scripts:                       *)
(*   - the shipping-cost engine        (Finance/Logisticscost1.py)         *)
(*   - the window-sales aggregator     (Orders/summarize_order_info_...)   *)
(*   - the peak-day aggregation        (Orders/summarize_peak_daily_...)   *)
(*   - the dynamic daily-sales estimator (Orders/calculate_daily_weight)   *)
(*   - the stock purchase pipelines    (CreateStockFill.py)                *)
(*   - the finance roll-up and its writes (CreateFinance.py, utils/)       *)
(*   - the tenant token cache       (Feishu/tenant_token_cache_script.py)  *)
(*   - the rotating API client      (ozon_ads_pipeline_full/ozon_client)   *)
(*   - the Feishu pagination loops  (utils/feishu_records_polars.py)       *)
(*   - the report runs              (ozon_ads_pipeline_full/report_...)    *)
(*                                                                         *)
(* Number representation.  Python floats are modelled by exact fixed-point *)
(* integers:                                                               *)
(*   money    : units of 1/10000 rouble (MoneyScale); the shipped amounts  *)
(*              of the model are whole roubles, for which amount * pct/100 *)
(*              is exact in these units                                    *)
(*   volume   : a record [ml, nl] = ml/1000 litre + nl/10^9 litre, with    *)
(*              0 <= nl < 10^6, so that the 1e-9 tolerance of the bracket  *)
(*              comparison is one unit of nl                               *)
(*   coefficient : thousandths; percentage : hundredths of a percent point *)
(***************************************************************************)
EXTENDS Integers, Naturals, Sequences, FiniteSets, Bags, TLC

VARIABLES
    fIn,        \* inputs of one fee computation (pure-function harness)
    fOut,       \* its results, NoCall before the function has been applied
    order_info, \* the order_info collection read by build_grouped_df
    accruals,   \* the ozon_accruals collection
    shipRun,    \* parameters and result of the last build_grouped_df call
    orders,     \* the order_info collection read by the Mongo pipelines
    sumRun,     \* parameters and result of the last OrderSummaryGenerator.run
    stockIn,    \* the base row and configuration of one stock pipeline run
    toucheng,   \* the in-transit source table read by GenoverseasInventory
    stockRun,   \* the frames and outcome of the last stock pipeline run
    feishu,     \* the records of the destination table of the collaboration suite
    mongo,      \* the documents of the operation collection
    finIn,      \* the joined frame (final_df) of one finance run
    finRun,     \* the derived frame and outcome of the last finance run
    now,        \* time.time() in whole seconds
    cache,      \* the content of .tenant_token_cache.json
    issued,     \* the number of tokens the token endpoint has issued
    tokRun,     \* the outcome of the last get_tenant_token call
    creds,      \* len(self.creds) of the OzonClient
    client,     \* cred_idx and the owners of the session's client-id and Authorization
    call,       \* the position of the running _request_json call
    lastReq,    \* the client-id, token owner and cred_idx of the last request sent
    pages,      \* the locals of the running fetch_field_schema / search_records loop
    report      \* the position of a report run: the uuid waited for, the statuses polled

feeVars  == <<fIn, fOut>>
shipVars == <<order_info, accruals, shipRun>>
winVars  == <<orders, sumRun>>
stockVars == <<stockIn, toucheng, stockRun>>
ioVars == <<feishu, mongo>>
finVars == <<finIn, finRun>>
tokVars == <<now, cache, issued, tokRun>>
ozVars == <<creds, client, call, lastReq>>
pageVars == <<pages>>
repVars == <<report>>
extraVars == <<tokVars, ozVars, pageVars, repVars>>
laterVars == <<stockVars, ioVars, finVars, extraVars>>
vars     == <<fIn, fOut, order_info, accruals, shipRun, orders, sumRun, laterVars>>

\* Python's None, per type: a volume, a date string, a record
VolNone == [null |-> TRUE, ml |-> 0, nl |-> 0]
NoDate  == <<>>
NoCall  == [fn |-> "none"]

Max2(a, b) == IF a >= b THEN a ELSE b
Min2(a, b) == IF a <= b THEN a ELSE b

\* fixed-point units, and the stand-in for float("inf")
MoneyScale == 10000
NlPerMl == 1000000
Inf == 2000000000

\* sum of the values of a function with a finite domain
RECURSIVE SumF(_)
SumF(f) ==
    IF DOMAIN f = {} THEN 0
    ELSE LET x == CHOOSE y \in DOMAIN f : TRUE
         IN f[x] + SumF([y \in DOMAIN f \ {x} |-> f[y]])

\* sum of w[x] * B[x] over the elements x of the bag B that satisfy keep[x]
BagSum(B, keep, w) ==
    SumF([x \in {y \in DOMAIN B : keep[y]} |-> w[x] * B[x]])

(***************************************************************************)
(* Raw field values as the documents hold them.                            *)
(*   number field: [kind, neg, mag]  kind "none" = missing / None,         *)
(*       "num" = an int or float, "str" = a string whose first digit run   *)
(*       reads mag (MoneyScale units) and that carries a minus sign iff    *)
(*       neg, "text" = a string without any digit                          *)
(*   date field: [kind, sep, ymd, slot]  kind "none" = missing, "str" = a  *)
(*       string; sep is the separator between year, month and day ("-",    *)
(*       "/", "." or "?" when the string holds no date at all); slot is    *)
(*       the half of the day of the time part                              *)
(***************************************************************************)
RawNone == [kind |-> "none", neg |-> FALSE, mag |-> 0]
RawStr(n) == [kind |-> "str", neg |-> n < 0, mag |-> IF n < 0 THEN 0 - n ELSE n]
RawNum(n) == [kind |-> "num", neg |-> n < 0, mag |-> IF n < 0 THEN 0 - n ELSE n]
RawText == [kind |-> "text", neg |-> FALSE, mag |-> 0]

\* variant: the sign of a numeric string is kept
to_float_signed(x) ==
    CASE x.kind = "none" -> 0
      [] x.kind = "num"  -> IF x.neg THEN 0 - x.mag ELSE x.mag
      [] x.kind = "str"  -> IF x.neg THEN 0 - x.mag ELSE x.mag
      [] OTHER           -> 0

\* _num_re has no sign: a string yields the magnitude of its first number
to_float(x) ==
    CASE x.kind = "none" -> 0
      [] x.kind = "num"  -> IF x.neg THEN 0 - x.mag ELSE x.mag
      [] x.kind = "str"  -> x.mag
      [] OTHER           -> 0

\* Python round(): to the nearest integer, ties to the even one
PyRound(v) ==
    LET a == IF v < 0 THEN 0 - v ELSE v
        q == a \div MoneyScale
        r == a % MoneyScale
        n == IF 2 * r > MoneyScale \/ (2 * r = MoneyScale /\ q % 2 = 1)
             THEN q + 1 ELSE q
    IN IF v < 0 THEN 0 - n ELSE n

to_int(x) == PyRound(to_float(x))

RawDate(sp, d, sl) == [kind |-> "str", sep |-> sp, ymd |-> d, slot |-> sl]
RawDateNone == [kind |-> "none", sep |-> "?", ymd |-> NoDate, slot |-> 0]

\* _date_re accepts "/", "-" and "." between the three numbers
normalize_date_ymd(x) ==
    IF x.kind = "none" THEN NoDate
    ELSE IF x.sep \in {"/", "-", "."} THEN x.ymd
    ELSE NoDate

(***************************************************************************)
(* Rule tables                                                             *)
(***************************************************************************)

\* hour -> <<coefficient in thousandths, percentage in hundredths>>
default_hour_rules ==
    [h \in 29..61 |->
      CASE h = 29 -> <<1000, 0>>   [] h = 30 -> <<1050, 25>>  [] h = 31 -> <<1110, 55>>
        [] h = 32 -> <<1160, 80>>  [] h = 33 -> <<1230, 115>> [] h = 34 -> <<1280, 140>>
        [] h = 35 -> <<1320, 160>> [] h = 36 -> <<1360, 180>> [] h = 37 -> <<1400, 200>>
        [] h = 38 -> <<1440, 220>> [] h = 39 -> <<1480, 240>> [] h = 40 -> <<1510, 255>>
        [] h = 41 -> <<1540, 270>> [] h = 42 -> <<1570, 285>> [] h = 43 -> <<1600, 300>>
        [] h = 44 -> <<1630, 315>> [] h = 45 -> <<1660, 330>> [] h = 46 -> <<1690, 345>>
        [] h = 47 -> <<1710, 355>> [] h = 48 -> <<1730, 365>> [] h = 49 -> <<1750, 375>>
        [] h = 50 -> <<1760, 380>> [] h = 51 -> <<1770, 385>> [] h = 52 -> <<1774, 387>>
        [] h = 53 -> <<1780, 390>> [] h = 54 -> <<1784, 392>> [] h = 55 -> <<1788, 394>>
        [] h = 56 -> <<1790, 395>> [] h = 57 -> <<1792, 396>> [] h = 58 -> <<1794, 397>>
        [] h = 59 -> <<1796, 398>> [] h = 60 -> <<1798, 399>> [] h = 61 -> <<1800, 400>>]

\* two of the fifteen light-small Ozon IDs stand for the set
default_light_small_ids == {"1701596112", "2423694063"}

\* <<low, high, fee>>, low and high in millilitres, fee in roubles
default_new_base_fee_brackets ==
    << <<0, 200, 17>>, <<201, 400, 19>>, <<401, 600, 21>>, <<601, 800, 22>>,
       <<801, 1000, 23>>, <<1001, 1250, 25>>, <<1251, 1500, 26>>,
       <<1501, 1750, 27>>, <<1751, 2000, 29>>, <<2001, 3000, 31>>,
       <<3001, 4000, 35>>, <<4001, 5000, 38>>, <<5001, 6000, 42>>,
       <<6001, 7000, 57>>, <<7001, 8000, 61>>, <<8001, 9000, 64>>,
       <<9001, 10000, 68>>, <<10001, 11000, 78>>, <<11001, 12000, 82>>,
       <<12001, 13000, 86>>, <<13001, 14000, 91>>, <<14001, 15000, 95>>,
       <<15001, 17000, 100>>, <<17001, 20000, 109>>, <<20001, 25000, 117>>,
       <<25001, 30000, 129>>, <<30001, 35000, 144>>, <<35001, 40000, 154>>,
       <<40001, 45000, 173>>, <<45001, 50000, 186>>, <<50001, 60000, 204>>,
       <<60001, 70000, 227>>, <<70001, 80000, 245>>, <<80001, 90000, 270>>,
       <<90001, 100000, 280>>, <<100001, 125000, 326>>, <<125001, 150000, 375>>,
       <<150001, 175000, 429>>, <<175001, 190000, 476>>, <<190001, Inf, 792>> >>

old_base_1l == 46
old_extra_per_l == 10
light_small_fee_per_unit == 11

(***************************************************************************)
(* Volumes                                                                 *)
(***************************************************************************)
Vol(m, n) == [null |-> FALSE, ml |-> m, nl |-> n]
VolZero == Vol(0, 0)
VolOne  == Vol(1000, 0)

\* Python truthiness of a volume: None and 0.0 are falsy
VolFalsy(v) == v.null \/ v = VolZero
VolNeg(v) == v.ml < 0
\* v1 <= v2 on two volumes
VolLe(v1, v2) == v1.ml < v2.ml \/ (v1.ml = v2.ml /\ v1.nl <= v2.nl)
\* max(float(volume or dflt), 0.0)
VolOrClamp(v, dflt) ==
    LET x == IF VolFalsy(v) THEN dflt ELSE v
    IN IF VolNeg(x) THEN VolZero ELSE x

\* (v + 1e-9) >= low and (v - 1e-9) <= high, low and high in millilitres
BracketMatches(v, b) ==
    /\ (v.ml >= b[1] \/ (v.ml = b[1] - 1 /\ v.nl + 1 >= NlPerMl))
    /\ (b[2] = Inf \/ v.ml < b[2] \/ (v.ml = b[2] /\ v.nl <= 1))

\* the brackets the comparison accepts for the clamped volume
MatchingBrackets(volume, brackets) ==
    LET v == VolOrClamp(volume, VolZero)
    IN {i \in 1..Len(brackets) : BracketMatches(v, brackets[i])}

new_base_fee_by_volume(volume, brackets) ==
    LET M == MatchingBrackets(volume, brackets)
    IN IF M # {}
       THEN brackets[CHOOSE i \in M : \A j \in M : i <= j][3]
       ELSE IF Len(brackets) > 0 THEN brackets[Len(brackets)][3] ELSE 0

(***************************************************************************)
(* Dates as normalised "YYYY-MM-DD" strings: <<y, m, d>>; the strings are  *)
(* zero padded, so string order is the lexicographic order of the triple.  *)
(***************************************************************************)
StrGe(a, b) ==
    \/ a[1] > b[1]
    \/ (a[1] = b[1] /\ a[2] > b[2])
    \/ (a[1] = b[1] /\ a[2] = b[2] /\ a[3] >= b[3])

coeff_and_pct_for_hours(avg_delivery_hours, hour_rules) ==
    LET lo == CHOOSE h \in DOMAIN hour_rules : \A k \in DOMAIN hour_rules : h <= k
        hi == CHOOSE h \in DOMAIN hour_rules : \A k \in DOMAIN hour_rules : h >= k
    IN hour_rules[Max2(Min2(avg_delivery_hours, hi), lo)]

\* variant: the boundary day itself still falls under the old rules
use_new_rule_after_boundary(order_date_ymd, rule_mode, rule_boundary_date_ymd) ==
    IF rule_mode = "new" THEN TRUE
    ELSE IF rule_mode = "old" THEN FALSE
    ELSE /\ order_date_ymd # NoDate
         /\ order_date_ymd # rule_boundary_date_ymd
         /\ StrGe(order_date_ymd, rule_boundary_date_ymd)

use_new_rule(order_date_ymd, rule_mode, rule_boundary_date_ymd) ==
    IF rule_mode = "new" THEN TRUE
    ELSE IF rule_mode = "old" THEN FALSE
    ELSE order_date_ymd # NoDate /\ StrGe(order_date_ymd, rule_boundary_date_ymd)

\* max(0, math.ceil(vol - 1.0)) for a clamped volume
old_extra_steps(vol) ==
    IF VolLe(vol, VolOne) THEN 0
    ELSE LET above == vol.ml - 1000
         IN IF above % 1000 = 0 /\ vol.nl = 0
            THEN above \div 1000
            ELSE (above \div 1000) + 1

fallback_base(volume_liters, use_new, brackets) ==
    LET vol == VolOrClamp(volume_liters, VolOne)
    IN IF use_new
       THEN new_base_fee_by_volume(vol, brackets)
       ELSE old_base_1l + old_extra_per_l * old_extra_steps(vol)

\* shipped_amount in money units; the result is in money units
compute_fallback_logistics_fee(shipped_amount, volume_liters, avg_delivery_hours, order_date_ymd, rule_mode, rule_boundary_date_ymd, hour_rules, brackets) ==
    LET cp   == coeff_and_pct_for_hours(avg_delivery_hours, hour_rules)
        base == fallback_base(volume_liters,
                    use_new_rule(order_date_ymd, rule_mode, rule_boundary_date_ymd),
                    brackets)
    IN base * cp[1] * (MoneyScale \div 1000)
         + (shipped_amount \div MoneyScale) * cp[2]

(***************************************************************************)
(* Pure-function harness for the fee rules: Init draws the arguments, the  *)
(* actions apply compute_fallback_logistics_fee and new_base_fee_by_volume *)
(***************************************************************************)
Rub(n) == n * MoneyScale

BoundaryMls ==
    {default_new_base_fee_brackets[i][1] : i \in 1..Len(default_new_base_fee_brackets)}
      \cup ({default_new_base_fee_brackets[i][2] : i \in 1..Len(default_new_base_fee_brackets)}
              \ {Inf})
      \cup {100, 250000}
NlSamples == {0, 1, 2, 500000, 999998, 999999}
VolumeInputs ==
    {Vol(m, n) : m \in BoundaryMls, n \in NlSamples} \cup {VolNone, Vol(-5, 0)}
DateInputs ==
    {NoDate, <<2024, 12, 31>>, <<2025, 8, 31>>, <<2025, 9, 1>>, <<2025, 10, 1>>}
HourInputs == {20, 29, 45, 70}
AmountInputs == {0, Rub(500)}
RuleModes == {"auto", "old", "new"}
rule_boundary_date == <<2025, 9, 1>>

IdleShip == /\ order_info = EmptyBag
            /\ accruals = EmptyBag
            /\ shipRun = NoCall
IdleWin  == /\ orders = EmptyBag
            /\ sumRun = NoCall
IdleStock == /\ stockIn = NoCall
             /\ toucheng = EmptyBag
             /\ stockRun = NoCall
IdleIo == feishu = {} /\ mongo = {}
IdleFin == finIn = NoCall /\ finRun = NoCall
IdleTok == now = 0 /\ cache = [kind |-> "none", app_id |-> "", domain |-> "", expire_at |-> 0, token |-> 0] /\ issued = 0 /\ tokRun = NoCall
IdleOz == creds = 1 /\ client = [cred_idx |-> 0, cid |-> 0, tok |-> 0] /\ call = [pc |-> "idle", attempt |-> 0, tried |-> 0, sent |-> 0, n429 |-> 0, first |-> 0, result |-> "none"] /\ lastReq = [sent |-> FALSE, cid |-> 0, tok |-> 0, cred_idx |-> 0]
IdlePages == pages = [fn |-> "none", pc |-> "idle", max_pages |-> 0, page_token |-> 0, seen |-> {}, page_no |-> 0, items |-> <<>>, schema |-> {}, why |-> "none"]
IdleRep == report = [caller |-> "none", plan |-> <<>>, idx |-> 0, pc |-> "idle", elapsed |-> 0, polled |-> <<>>, last |-> [how |-> "none", polled |-> <<>>, elapsed |-> 0], seen |-> {}, downloaded |-> {}]
IdleExtra == IdleTok /\ IdleOz /\ IdlePages /\ IdleRep
IdleOld == fIn = NoCall /\ fOut = NoCall /\ IdleShip /\ IdleWin /\ IdleStock /\ IdleIo /\ IdleFin
IdleLater == IdleStock /\ IdleIo /\ IdleFin /\ IdleExtra

InitFee ==
    /\ fIn \in [shipped_amount : AmountInputs, volume : VolumeInputs,
                hours : HourInputs, date : DateInputs, rule_mode : RuleModes]
    /\ fOut = NoCall
    /\ IdleShip
    /\ IdleWin
    /\ IdleLater

ApplyFallbackFee ==
    /\ fOut = NoCall
    /\ fOut' = [fn |-> "compute_fallback_logistics_fee",
                use_new |-> use_new_rule(fIn.date, fIn.rule_mode, rule_boundary_date),
                base |-> fallback_base(fIn.volume,
                            use_new_rule(fIn.date, fIn.rule_mode, rule_boundary_date),
                            default_new_base_fee_brackets),
                fee |-> compute_fallback_logistics_fee(fIn.shipped_amount, fIn.volume,
                            fIn.hours, fIn.date, fIn.rule_mode, rule_boundary_date,
                            default_hour_rules, default_new_base_fee_brackets)]
    /\ UNCHANGED <<fIn, shipVars, winVars, laterVars>>

ApplyNewBaseFee ==
    /\ fOut = NoCall
    /\ fOut' = [fn |-> "new_base_fee_by_volume",
                fee |-> new_base_fee_by_volume(fIn.volume, default_new_base_fee_brackets)]
    /\ UNCHANGED <<fIn, shipVars, winVars, laterVars>>

NextFee == ApplyFallbackFee \/ ApplyNewBaseFee
SpecFee == InitFee /\ [][NextFee]_vars

(***************************************************************************)
(* build_grouped_df: the shipping-cost pipeline                            *)
(*   order document   [date, status, shipment, ozon, qty, amount]          *)
(*   accrual document [type, date, shipment, logistika]                    *)
(* "cancelled" stands for the status string of a cancelled order and       *)
(* "delivery" for the charge type "Dostavka pokupatelyu".                  *)
(***************************************************************************)
Cancelled == "cancelled"
charge_type == "delivery"

NullNum == [null |-> TRUE, val |-> 0]
SomeNum(v) == [null |-> FALSE, val |-> v]

\* the documents of B that satisfy keep, as a bag
BagFilter(B, keep) == [x \in {y \in DOMAIN B : keep[y]} |-> B[x]]

fetch_order_info_for_dates(coll, dates_ymd) ==
    BagFilter(coll, [doc \in DOMAIN coll |->
                        /\ doc.status # Cancelled
                        /\ normalize_date_ymd(doc.date) \in dates_ymd])

fetch_accruals_by_acceptance_dates(coll, dates_ymd) ==
    BagFilter(coll, [doc \in DOMAIN coll |->
                        /\ doc.type = charge_type
                        /\ normalize_date_ymd(doc.date) \in dates_ymd])

\* accruals summed per shipment number: shipment -> sum of to_float(Logistika)
accruals_by_shipment(accr) ==
    [sh \in {a.shipment : a \in DOMAIN accr} |->
        BagSum(accr, [a \in DOMAIN accr |-> a.shipment = sh],
                     [a \in DOMAIN accr |-> to_float(a.logistika)])]

\* left join with the SKU volume table, then fill_null(1.0)
joined_volume(ozon, sku_volume) ==
    IF ozon \in DOMAIN sku_volume /\ ~sku_volume[ozon].null
    THEN sku_volume[ozon] ELSE VolOne

\* left join with the per-shipment accruals; a null column when there are none
joined_logistika(shipment, df_accr) ==
    IF shipment \in DOMAIN df_accr THEN SomeNum(df_accr[shipment]) ELSE NullNum

\* variant: the recorded cost is looked at before the light-small set
fee_path_actual_first(ozon, logistika, light_small_ids) ==
    IF ~logistika.null /\ logistika.val > 0 THEN "actual"
    ELSE IF ozon \in light_small_ids THEN "light_small"
    ELSE "fallback"

\* which branch of the when/then/otherwise chain gives the row its fee
fee_path(ozon, logistika, light_small_ids) ==
    IF ozon \in light_small_ids THEN "light_small"
    ELSE IF ~logistika.null /\ logistika.val > 0 THEN "actual"
    ELSE "fallback"

\* variant: then / otherwise of the inner when are exchanged
fee_row_swapped(path, qty, logistika, fallback) ==
    CASE path = "light_small" -> qty * (light_small_fee_per_unit * MoneyScale)
      [] path = "actual"      -> fallback
      [] OTHER                -> logistika.val

fee_row(path, qty, logistika, fallback) ==
    CASE path = "light_small" -> qty * (light_small_fee_per_unit * MoneyScale)
      [] path = "actual"      -> logistika.val
      [] OTHER                -> fallback

\* one row of df after step 5, for the order document doc
order_row(doc, cfg, df_accr) ==
    LET date   == normalize_date_ymd(doc.date)
        qty    == to_int(doc.qty)
        amount == to_float(doc.amount)
        vol    == joined_volume(doc.ozon, cfg.sku_volume)
        logi   == joined_logistika(doc.shipment, df_accr)
        path   == fee_path(doc.ozon, logi, default_light_small_ids)
        fb     == compute_fallback_logistics_fee(amount, vol, cfg.hours[date], date,
                      cfg.rule_mode, rule_boundary_date,
                      default_hour_rules, default_new_base_fee_brackets)
    IN [doc |-> doc, date |-> date, ozon |-> doc.ozon, shipment |-> doc.shipment,
        qty |-> qty, amount |-> amount, volume |-> vol, hours |-> cfg.hours[date],
        logistika |-> logi, path |-> path, fallback |-> fb,
        fee |-> fee_row(path, qty, logi, fb)]

\* step 6: group by (date, Ozon ID), sum, and derive the per-unit averages
grouped_rows(rows) ==
    { LET in_g  == [r \in DOMAIN rows |-> r.date = k[1] /\ r.ozon = k[2]]
          qty   == BagSum(rows, in_g, [r \in DOMAIN rows |-> r.qty])
          amt   == BagSum(rows, in_g, [r \in DOMAIN rows |-> r.amount])
          fee   == BagSum(rows, in_g, [r \in DOMAIN rows |-> r.fee])
      IN [date |-> k[1], ozon |-> k[2], qty |-> qty, amount |-> amt, fee |-> fee,
          avg_price |-> IF qty > 0 THEN amt \div qty ELSE 0,
          avg_fee   |-> IF qty > 0 THEN fee \div qty ELSE 0]
      : k \in {<<r.date, r.ozon>> : r \in DOMAIN rows} }

build_grouped_df(coll_orders, coll_accr, cfg) ==
    LET fetched == fetch_order_info_for_dates(coll_orders, cfg.dates)
        accr    == fetch_accruals_by_acceptance_dates(coll_accr, cfg.dates)
        df_accr == accruals_by_shipment(accr)
        rows    == [r \in {order_row(d, cfg, df_accr) : d \in DOMAIN fetched}
                        |-> fetched[r.doc]]
    IN [fn |-> "build_grouped_df", cfg |-> cfg, rows |-> rows, g |-> grouped_rows(rows)]

(***************************************************************************)
(* The collections and the calls of the shipping-cost specification        *)
(***************************************************************************)
MaxOrderDocs == 2
MaxAccrualDocs == 2

D0831 == <<2025, 8, 31>>
D0901 == <<2025, 9, 1>>
LightSku  == "1701596112"
NormalSku == "1390458672"

OrderDocs ==
    [date : {RawDate("-", D0831, 1), RawDate("/", D0901, 0), RawDate("?", NoDate, 0)},
     status : {""}, shipment : {"s1", "s2"}, ozon : {LightSku, NormalSku},
     qty : {RawStr(1 * MoneyScale)}, amount : {RawStr(500 * MoneyScale)}]
    \cup
    [date : {RawDate("/", D0901, 0)},
     status : {"", Cancelled}, shipment : {"s1"}, ozon : {LightSku, NormalSku},
     qty : {RawStr(3 * MoneyScale)}, amount : {RawStr(-5000 * MoneyScale)}]

AccrualDocs ==
    [type : {charge_type}, date : {RawDate("-", D0901, 1)}, shipment : {"s1", "s2"},
     logistika : {RawStr(-63 * MoneyScale), RawNum(-63 * MoneyScale), RawStr(40 * MoneyScale)}]
    \cup
    [type : {"other"}, date : {RawDate("-", D0901, 1)}, shipment : {"s1"},
     logistika : {RawStr(40 * MoneyScale)}]
    \cup
    [type : {charge_type}, date : {RawDate("-", D0831, 1)}, shipment : {"s1"},
     logistika : {RawStr(40 * MoneyScale)}]

\* the arguments of one call: selected dates, hours per date, SKU volume table, rule mode
ShipConfigs ==
    { [dates |-> {D0831, D0901}, hours |-> (D0831 :> 30 @@ D0901 :> 61),
       sku_volume |-> (NormalSku :> Vol(500, 0) @@ LightSku :> Vol(150000, 0)),
       rule_mode |-> "auto"],
      [dates |-> {D0901}, hours |-> (D0901 :> 29),
       sku_volume |-> (NormalSku :> VolNone), rule_mode |-> "auto"],
      [dates |-> {D0831, D0901}, hours |-> (D0831 :> 45 @@ D0901 :> 45),
       sku_volume |-> (NormalSku :> Vol(2500, 0) @@ LightSku :> Vol(100, 0)),
       rule_mode |-> "old"],
      [dates |-> {D0831, D0901}, hours |-> (D0831 :> 70 @@ D0901 :> 20),
       sku_volume |-> (LightSku :> Vol(0, 0)), rule_mode |-> "new"] }

InitShipping ==
    /\ order_info = EmptyBag
    /\ accruals = EmptyBag
    /\ shipRun = NoCall
    /\ fIn = NoCall
    /\ fOut = NoCall
    /\ IdleWin
    /\ IdleLater

\* a document is imported into order_info
InsertOrderInfo ==
    /\ shipRun = NoCall
    /\ BagCardinality(order_info) < MaxOrderDocs
    /\ \E d \in OrderDocs : order_info' = order_info (+) SetToBag({d})
    /\ UNCHANGED <<accruals, shipRun, feeVars, winVars, laterVars>>

\* a document is imported into ozon_accruals
InsertAccrual ==
    /\ shipRun = NoCall
    /\ BagCardinality(accruals) < MaxAccrualDocs
    /\ \E a \in AccrualDocs : accruals' = accruals (+) SetToBag({a})
    /\ UNCHANGED <<order_info, shipRun, feeVars, winVars, laterVars>>

BuildGroupedDf ==
    /\ shipRun = NoCall
    /\ \E cfg \in ShipConfigs : shipRun' = build_grouped_df(order_info, accruals, cfg)
    /\ UNCHANGED <<order_info, accruals, feeVars, winVars, laterVars>>

NextShipping == InsertOrderInfo \/ InsertAccrual \/ BuildGroupedDf
SpecShipping == InitShipping /\ [][NextShipping]_vars

(***************************************************************************)
(* The Mongo aggregation pipelines over order_info                         *)
(*   order document [date, sku, ozon, qty, status]                         *)
(* A datetime is a number of half days: 2 * day number + slot.             *)
(***************************************************************************)
\* day number of a date of July .. September 2025 (1 = 2025-07-01)
DayNum(ymd) ==
    (CASE ymd[2] = 7 -> 0 [] ymd[2] = 8 -> 31 [] OTHER -> 62) + ymd[3]

\* $dateFromString with format "%Y-%m-%d %H:%M:%S" and no onError:
\* a missing field gives null, a string of another shape fails the aggregation
dateFromString(x) ==
    IF x.kind = "none" THEN [st |-> "null", t |-> 0]
    ELSE IF x.sep = "-" THEN [st |-> "ok", t |-> 2 * DayNum(x.ymd) + x.slot]
    ELSE [st |-> "error", t |-> 0]

\* $toDouble: null for a missing field (ignored by $sum), the signed number for
\* a numeric string
toDouble(x) ==
    CASE x.kind = "none" -> 0
      [] OTHER -> IF x.neg THEN 0 - x.mag ELSE x.mag

\* the $match stage: documents with start <= _proc_datetime < end
match_range(coll, start, end_exclusive) ==
    BagFilter(coll, [doc \in DOMAIN coll |->
        LET p == dateFromString(doc.date)
        IN p.st = "ok" /\ p.t >= start /\ p.t < end_exclusive])

\* variant: a window of w days starts w days before the reference day
summarize_order_windows_w_days_back(coll, target_date, windows) ==
    LET target_dt == 2 * DayNum(target_date)
        WSet == {windows[i] : i \in 1..Len(windows)}
        max_window == CHOOSE w \in WSet : \A v \in WSet : w >= v
        start_dt_max == target_dt - 2 * (max_window - 1)
        end_dt_exclusive == target_dt + 2
        window_start == [w \in WSet |-> target_dt - 2 * w]
        matched == match_range(coll, start_dt_max, end_dt_exclusive)
    IN [g \in {<<d.sku, d.ozon>> : d \in DOMAIN matched} |->
          [w \in WSet |->
              BagSum(matched,
                     [d \in DOMAIN matched |->
                         /\ <<d.sku, d.ozon>> = g
                         /\ dateFromString(d.date).t >= window_start[w]],
                     [d \in DOMAIN matched |-> toDouble(d.qty)])]]

\* variant: the $cond compares with $lte
summarize_order_windows_lte(coll, target_date, windows) ==
    LET target_dt == 2 * DayNum(target_date)
        WSet == {windows[i] : i \in 1..Len(windows)}
        max_window == CHOOSE w \in WSet : \A v \in WSet : w >= v
        start_dt_max == target_dt - 2 * (max_window - 1)
        end_dt_exclusive == target_dt + 2
        window_start == [w \in WSet |-> target_dt - 2 * (w - 1)]
        matched == match_range(coll, start_dt_max, end_dt_exclusive)
    IN [g \in {<<d.sku, d.ozon>> : d \in DOMAIN matched} |->
          [w \in WSet |->
              BagSum(matched,
                     [d \in DOMAIN matched |->
                         /\ <<d.sku, d.ozon>> = g
                         /\ dateFromString(d.date).t <= window_start[w]],
                     [d \in DOMAIN matched |-> toDouble(d.qty)])]]

summarize_order_windows(coll, target_date, windows) ==
    LET target_dt == 2 * DayNum(target_date)
        WSet == {windows[i] : i \in 1..Len(windows)}
        max_window == CHOOSE w \in WSet : \A v \in WSet : w >= v
        start_dt_max == target_dt - 2 * (max_window - 1)
        end_dt_exclusive == target_dt + 2
        window_start == [w \in WSet |-> target_dt - 2 * (w - 1)]
        matched == match_range(coll, start_dt_max, end_dt_exclusive)
    IN [g \in {<<d.sku, d.ozon>> : d \in DOMAIN matched} |->
          [w \in WSet |->
              BagSum(matched,
                     [d \in DOMAIN matched |->
                         /\ <<d.sku, d.ozon>> = g
                         /\ dateFromString(d.date).t >= window_start[w]],
                     [d \in DOMAIN matched |-> toDouble(d.qty)])]]

\* .fill_null(0).cast(pl.Int64) of a non-negative double
cast_int64(x) == x \div MoneyScale

\* variant: the lookback starts days_back days before the reference day
summarize_peak_daily_sales_days_back(coll, target_date, days_back) ==
    LET target_dt == 2 * DayNum(target_date)
        start_dt == target_dt - 2 * days_back
        end_dt_exclusive == target_dt + 2
        matched == match_range(coll, start_dt, end_dt_exclusive)
        day(d) == dateFromString(d.date).t \div 2
        daily_sum(o, dy) ==
            BagSum(matched,
                   [d \in DOMAIN matched |-> d.ozon = o /\ day(d) = dy],
                   [d \in DOMAIN matched |-> toDouble(d.qty)])
    IN [o \in {d.ozon : d \in DOMAIN matched} |->
          LET sums == {daily_sum(o, day(d)) : d \in {e \in DOMAIN matched : e.ozon = o}}
          IN cast_int64(CHOOSE m \in sums : \A n \in sums : m >= n)]

summarize_peak_daily_sales(coll, target_date, days_back) ==
    LET target_dt == 2 * DayNum(target_date)
        start_dt == target_dt - 2 * (days_back - 1)
        end_dt_exclusive == target_dt + 2
        matched == match_range(coll, start_dt, end_dt_exclusive)
        day(d) == dateFromString(d.date).t \div 2
        daily_sum(o, dy) ==
            BagSum(matched,
                   [d \in DOMAIN matched |-> d.ozon = o /\ day(d) = dy],
                   [d \in DOMAIN matched |-> toDouble(d.qty)])
    IN [o \in {d.ozon : d \in DOMAIN matched} |->
          LET sums == {daily_sum(o, day(d)) : d \in {e \in DOMAIN matched : e.ozon = o}}
          IN cast_int64(CHOOSE m \in sums : \A n \in sums : m >= n)]

(***************************************************************************)
(* Python floats are IEEE-754 binary64.  A natural number below 2^61 is    *)
(* the pair <<hi, lo>> = hi * 2^30 + lo with 0 <= lo < 2^30; a positive    *)
(* double is [m, e] = m * 2^e with 2^52 <= m < 2^53, and 0.0 is FloatZero. *)
(* Division, addition and multiplication compute the exact result and      *)
(* round it to the nearest double, ties to even.                           *)
(***************************************************************************)
B30 == 1073741824
BigZero == <<0, 0>>
BigOne == <<0, 1>>
BigLt(a, b) == a[1] < b[1] \/ (a[1] = b[1] /\ a[2] < b[2])

BigAdd(a, b) ==
    LET lo == (a[2] - B30) + b[2]
    IN IF lo >= 0 THEN <<a[1] + b[1] + 1, lo>> ELSE <<a[1] + b[1], lo + B30>>

BigSub(a, b) ==
    LET lo == a[2] - b[2]
    IN IF lo >= 0 THEN <<a[1] - b[1], lo>> ELSE <<a[1] - b[1] - 1, lo + B30>>

BigHalf(a) == <<a[1] \div 2, (a[2] \div 2) + (a[1] % 2) * (B30 \div 2)>>
BigOdd(a) == a[2] % 2 = 1
Pow2Big(k) == IF k < 30 THEN <<0, 2 ^ k>> ELSE <<2 ^ (k - 30), 0>>

\* <<X \div 2^d, X % 2^d # 0>>
BigShr(X, d) ==
    IF d = 0 THEN <<X, FALSE>>
    ELSE IF d < 30
    THEN <<(<<X[1] \div 2 ^ d, X[2] \div 2 ^ d + (X[1] % 2 ^ d) * 2 ^ (30 - d)>>),
           X[2] % 2 ^ d # 0>>
    ELSE IF d = 30 THEN <<(<<0, X[1]>>), X[2] # 0>>
    ELSE IF d < 61 THEN <<(<<0, X[1] \div 2 ^ (d - 30)>>),
                          X[2] # 0 \/ X[1] % 2 ^ (d - 30) # 0>>
    ELSE <<BigZero, X # BigZero>>

FloatZero == [m |-> BigZero, e |-> 0]

\* the double nearest to (X + f) * 2^e, where 2^53 <= X, 0 <= f < 1 and s tells
\* whether f > 0; ties go to the even mantissa
RECURSIVE float_round(_, _, _)
float_round(X, s, e) ==
    IF ~BigLt(X, Pow2Big(54)) THEN float_round(BigHalf(X), s \/ BigOdd(X), e + 1)
    ELSE LET m == BigHalf(X)
             up == BigOdd(X) /\ (s \/ BigOdd(m))
             m1 == IF up THEN BigAdd(m, BigOne) ELSE m
         IN IF m1 = Pow2Big(53) THEN [m |-> Pow2Big(52), e |-> e + 2]
            ELSE [m |-> m1, e |-> e + 1]

\* float(n) of an integer 0 <= n < 2^30, which is exact
float(n) ==
    IF n = 0 THEN FloatZero
    ELSE LET k == CHOOSE j \in 1..30 : 2 ^ (j - 1) <= n /\ n < 2 ^ j
             sh == 53 - k
         IN [m |-> IF sh >= 30 THEN <<n * 2 ^ (sh - 30), 0>>
                   ELSE <<n \div 2 ^ (30 - sh), (n % 2 ^ (30 - sh)) * 2 ^ sh>>,
             e |-> -sh]

\* long division: <<the quotient bits of r / d at positions hi-1 .. lo, the
\* remainder>>, for r < d
RECURSIVE div_bits(_, _, _, _)
div_bits(r, d, lo, hi) ==
    IF hi = lo + 1
    THEN LET r2 == BigAdd(r, r)
         IN IF BigLt(r2, d) THEN <<BigZero, r2>> ELSE <<Pow2Big(lo), BigSub(r2, d)>>
    ELSE LET mid == (lo + hi) \div 2
             up == div_bits(r, d, mid, hi)
             dn == div_bits(up[2], d, lo, mid)
         IN <<BigAdd(up[1], dn[1]), dn[2]>>

\* a / b for a >= 0 and b > 0
float_div(a, b) ==
    IF a.m = BigZero THEN FloatZero
    ELSE LET ge == ~BigLt(a.m, b.m)
             qs == div_bits(IF ge THEN BigSub(a.m, b.m) ELSE a.m, b.m, 0, 55)
         IN float_round(IF ge THEN BigAdd(Pow2Big(55), qs[1]) ELSE qs[1],
                        qs[2] # BigZero, a.e - b.e - 55)

\* a < b for a, b >= 0
float_lt(a, b) ==
    IF b.m = BigZero THEN FALSE
    ELSE IF a.m = BigZero THEN TRUE
    ELSE a.e < b.e \/ (a.e = b.e /\ BigLt(a.m, b.m))

\* a + b for a, b >= 0
float_add(a, b) ==
    IF a.m = BigZero THEN b
    ELSE IF b.m = BigZero THEN a
    ELSE LET hi == IF a.e >= b.e THEN a ELSE b
             lo == IF a.e >= b.e THEN b ELSE a
             h4 == BigAdd(BigAdd(hi.m, hi.m), BigAdd(hi.m, hi.m))
             l4 == BigAdd(BigAdd(lo.m, lo.m), BigAdd(lo.m, lo.m))
             sh == BigShr(l4, hi.e - lo.e)
         IN float_round(BigAdd(h4, sh[1]), sh[2], hi.e - 2)

\* steps lo .. hi-1 of the shift-and-add product a * b, low bit of b first:
\* <<a dropped bit was set, the accumulator, the remaining bits of b>>; after
\* step 52 the accumulator is (a * b) \div 2^51
RECURSIVE mul_bits(_, _, _, _, _)
mul_bits(acc, b, a, lo, hi) ==
    IF hi = lo + 1
    THEN LET t == IF ~BigOdd(b) THEN acc
                  ELSE IF lo = 52 THEN BigAdd(acc, BigAdd(a, a))
                  ELSE BigAdd(acc, a)
         IN IF lo > 50 THEN <<FALSE, t, BigHalf(b)>>
            ELSE <<BigOdd(t), BigHalf(t), BigHalf(b)>>
    ELSE LET mid == (lo + hi) \div 2
             dn == mul_bits(acc, b, a, lo, mid)
             up == mul_bits(dn[2], dn[3], a, mid, hi)
         IN <<dn[1] \/ up[1], up[2], up[3]>>

\* a * b for a, b >= 0
float_mul(a, b) ==
    IF a.m = BigZero \/ b.m = BigZero THEN FloatZero
    ELSE LET p == mul_bits(BigZero, b.m, a.m, 0, 53)
         IN float_round(p[2], p[1], a.e + b.e + 51)

\* sum(...) of non-negative floats: successive additions, starting from 0
RECURSIVE float_sum(_)
float_sum(q) ==
    IF q = <<>> THEN FloatZero
    ELSE float_add(float_sum(SubSeq(q, 1, Len(q) - 1)), q[Len(q)])

(***************************************************************************)
(* calculate_dynamic_daily_sales                                           *)
(***************************************************************************)
\* float(sum_val) of a window sum kept in units of 1 / MoneyScale
sum_float(x) ==
    IF x % MoneyScale = 0 THEN float(x \div MoneyScale)
    ELSE float_div(float(x), float(MoneyScale))

\* avg_daily: float(sum_val) / float(w) for each window, in the order of windows
RECURSIVE avg_daily(_, _)
avg_daily(sums, windows) ==
    IF windows = <<>> THEN <<>>
    ELSE <<float_div(sum_float(Head(sums)), float(Head(windows)))>>
             \o avg_daily(Tail(sums), Tail(windows))

\* sorted(avg_daily.keys(), key=..., reverse=True) as positions of windows; the
\* sort is stable, so among equal rates the window listed first comes first
sorted_windows(avg) ==
    LET n == Len(avg)
        before(j, i) == float_lt(avg[i], avg[j]) \/ (avg[j] = avg[i] /\ j < i)
        rank(i) == Cardinality({j \in 1..n : before(j, i)})
    IN [r \in 1..n |-> CHOOSE i \in 1..n : rank(i) = r - 1]

top_windows(avg, top_k) == SubSeq(sorted_windows(avg), 1, Min2(top_k, Len(avg)))

\* weights[w] for the windows from position i on
RECURSIVE weights_from(_, _, _, _)
weights_from(avg, top, total, i) ==
    IF i > Len(avg) THEN <<>>
    ELSE <<IF float_lt(FloatZero, total) /\ i \in top
           THEN float_div(avg[i], total) ELSE FloatZero>>
             \o weights_from(avg, top, total, i + 1)

\* variant: the rates are normalised by the total over all windows
dynamic_weights_all_total(avg, top_k) ==
    LET top == top_windows(avg, top_k)
        total_avg == float_sum(avg)
    IN weights_from(avg, {top[r] : r \in 1..Len(top)}, total_avg, 1)

dynamic_weights(avg, top_k) ==
    LET top == top_windows(avg, top_k)
        total_top_avg == float_sum([r \in 1..Len(top) |-> avg[top[r]]])
    IN weights_from(avg, {top[r] : r \in 1..Len(top)}, total_top_avg, 1)

\* daily_sales += (float(sum_val) / float(w)) * weights[w] over the first i windows
RECURSIVE weighted_daily_sales(_, _, _)
weighted_daily_sales(avg, wts, i) ==
    IF i = 0 THEN FloatZero
    ELSE float_add(weighted_daily_sales(avg, wts, i - 1), float_mul(avg[i], wts[i]))

\* df: <<sku, ozon>> -> (window -> sum); the result is keyed by Ozon ID
calculate_dynamic_daily_sales(df, windows, top_k) ==
    LET n == Len(windows)
    IN [o \in {g[2] : g \in DOMAIN df} |->
          LET grouped == [i \in 1..n |->
                  SumF([g \in {h \in DOMAIN df : h[2] = o} |-> df[g][windows[i]]])]
              avg == avg_daily(grouped, windows)
              top == top_windows(avg, top_k)
              wts == dynamic_weights(avg, top_k)
          IN [rate |-> avg, top |-> {top[r] : r \in 1..Len(top)}, weights |-> wts,
              daily_sales |-> weighted_daily_sales(avg, wts, n)]]

(***************************************************************************)
(* OrderSummaryGenerator.run                                               *)
(***************************************************************************)
run(coll, cfg) ==
    IF \E d \in DOMAIN coll : dateFromString(d.date).st = "error"
    THEN [fn |-> "run", cfg |-> cfg, raised |-> "dateFromString"]
    ELSE LET df_windows == summarize_order_windows(coll, cfg.target_date, cfg.windows)
         IN IF DOMAIN df_windows = {}
            THEN [fn |-> "run", cfg |-> cfg, raised |-> "no sum_X columns"]
            ELSE [fn |-> "run", cfg |-> cfg, raised |-> "",
                  df_windows |-> df_windows,
                  df_daily |-> calculate_dynamic_daily_sales(df_windows, cfg.windows,
                                                             cfg.top_k),
                  df_peak |-> summarize_peak_daily_sales(coll, cfg.target_date,
                                                         cfg.peak_days_back)]

MaxOrders == 3

D0725 == <<2025, 7, 25>>
D0801 == <<2025, 8, 1>>
D0805 == <<2025, 8, 5>>
D0807 == <<2025, 8, 7>>
D0808 == <<2025, 8, 8>>
Windows == <<7, 3, 14>>

WinDocs ==
    [date : {RawDate("-", D0725, 0), RawDate("-", D0801, 0), RawDate("-", D0805, 1),
             RawDate("-", D0807, 1), RawDate("-", D0808, 0)},
     sku : {"h1"}, ozon : {"o1"},
     qty : {RawStr(5 * MoneyScale), RawStr(10 * MoneyScale)}, status : {""}]
    \cup
    [date : {RawDate("-", D0805, 1), RawDate("-", D0807, 1)},
     sku : {"h1"}, ozon : {"o2"}, qty : {RawStr(5 * MoneyScale)}, status : {""}]
    \cup
    [date : {RawDate("-", D0805, 1)},
     sku : {"h2"}, ozon : {"o1"}, qty : {RawStr(10 * MoneyScale)}, status : {""}]
    \cup
    [date : {RawDate("-", D0805, 1)},
     sku : {"h1"}, ozon : {"o1"}, qty : {RawStr(5 * MoneyScale)}, status : {Cancelled}]
    \cup
    [date : {RawDate("/", D0805, 1), RawDateNone},
     sku : {"h1"}, ozon : {"o1"}, qty : {RawStr(5 * MoneyScale)}, status : {""}]

SummaryConfigs ==
    {[target_date |-> D0807, windows |-> Windows, top_k |-> 1, peak_days_back |-> 3],
     [target_date |-> D0807, windows |-> Windows, top_k |-> 2, peak_days_back |-> 1],
     [target_date |-> D0807, windows |-> Windows, top_k |-> 3, peak_days_back |-> 7],
     [target_date |-> D0808, windows |-> Windows, top_k |-> 5, peak_days_back |-> 3]}

InitWindows ==
    /\ orders = EmptyBag
    /\ sumRun = NoCall
    /\ fIn = NoCall
    /\ fOut = NoCall
    /\ IdleShip
    /\ IdleLater

\* a document is imported into order_info
InsertOrder ==
    /\ sumRun = NoCall
    /\ BagCardinality(orders) < MaxOrders
    /\ \E d \in WinDocs : orders' = orders (+) SetToBag({d})
    /\ UNCHANGED <<sumRun, feeVars, shipVars, laterVars>>

Run ==
    /\ sumRun = NoCall
    /\ \E cfg \in SummaryConfigs : sumRun' = run(orders, cfg)
    /\ UNCHANGED <<orders, feeVars, shipVars, laterVars>>

NextWindows == InsertOrder \/ Run
SpecWindows == InitWindows /\ [][NextWindows]_vars

(***************************************************************************)
(* Stock pipeline (CreateStockFill.py).  One row of the base table is      *)
(* followed through the joins.  Quantities are whole numbers >= 0;         *)
(* daily_sales is counted in units of 1 / DsScale, and so is every product *)
(* with daily_sales: the model's daily sales are dyadic, so the double     *)
(* arithmetic of the code is exact on them.  The channel names "7日达",     *)
(* "普快", "普慢" are written "d7", "fast", "slow"; the tiers are named     *)
(* shelf, cross, overseas, d7, fast, slow, local, purchased.               *)
(***************************************************************************)
DsScale == 2

\* a nullable integer column: null + x = null
NullAdd(a, b) == IF a.null \/ b.null THEN NullNum ELSE SomeNum(a.val + b.val)

\* pivot(values = quantity, index = fnsku, on = channel, sum).fill_null(0), then
\* the rename of the first channel column found among "d7", "fast", "slow";
\* cols are the '...在途数量(万)' columns of the result
GenoverseasInventory(src) ==
    LET chans == {d.channel : d \in DOMAIN src}
        fnskus == {d.fnsku : d \in DOMAIN src}
        cell(f, c) == BagSum(src, [d \in DOMAIN src |->
                                      d.fnsku = f /\ d.channel = c /\ ~d.qty.null],
                                  [d \in DOMAIN src |-> d.qty.val])
        renamed == IF "d7" \in chans THEN {"d7"}
                   ELSE IF "fast" \in chans THEN {"fast"}
                   ELSE IF "slow" \in chans THEN {"slow"}
                   ELSE {}
    IN [fnskus |-> fnskus, cols |-> renamed,
        qty |-> [f \in fnskus |-> [c \in renamed |-> cell(f, c)]]]

fill_null_with_zero(t) ==
    LET cols == t.cols \cup {"fast", "slow"}
    IN [fnskus |-> t.fnskus, cols |-> cols,
        qty |-> [f \in t.fnskus |->
                   [c \in cols |-> IF c \in t.cols THEN t.qty[f][c] ELSE 0]]]

\* basic_stock_fill_seasinventory_toucheng: the left join on Ozon ID = fnsku,
\* then fill_null(0); row.transit holds the in-transit quantity columns
basic_stock_fill_seasinventory_toucheng(row, t) ==
    [row EXCEPT !.transit =
        [c \in t.cols |-> IF row.ozon \in t.fnskus THEN t.qty[row.ozon][c] ELSE 0]]

\* (quantity / daily_sales).fill_nan(0.0).cast(Int64, strict=False) followed by
\* fill_null(0), or by fill_nan(0) for the fast channel: 0 / 0 is NaN, q / 0 is
\* infinite and casts to null, and fill_nan leaves an integer column as it is
days_of_cover(qty, ds, last) ==
    IF ds = 0
    THEN IF qty = 0 \/ last = "fill_null" THEN SomeNum(0) ELSE NullNum
    ELSE SomeNum((qty * DsScale) \div ds)

last_fill(tier) == IF tier = "fast" THEN "fill_nan" ELSE "fill_null"

\* the days-of-cover columns in the order in which they are added
tier_columns(row) ==
    <<"shelf", "cross", "overseas">>
    \o (IF "d7" \in DOMAIN row.transit THEN <<"d7">> ELSE <<>>)
    \o <<"fast", "slow", "local", "purchased">>

tier_quantity(row, tier) ==
    IF tier \in {"d7", "fast", "slow"} THEN row.transit[tier] ELSE row[tier]

\* each column = its own value + the previous column's cumulative value
RECURSIVE calculate_cumulative_days(_, _)
calculate_cumulative_days(days, cols) ==
    IF Len(cols) <= 1 THEN days
    ELSE LET n == Len(cols)
             prev == calculate_cumulative_days(days, SubSeq(cols, 1, n - 1))
         IN [prev EXCEPT ![cols[n]] = NullAdd(days[cols[n]], prev[cols[n - 1]])]

\* days: the columns before the accumulation; cum: the columns returned
calcu_available_days(row, safe_days, cluster) ==
    IF cluster
    THEN LET shelf == days_of_cover(row.shelf, row.daily_sales, "fill_null")
             cross == days_of_cover(row.cross, row.daily_sales, "fill_null")
         IN [cols |-> <<"shelf", "cross">>,
             days |-> [c \in {"shelf", "cross"} |-> IF c = "shelf" THEN shelf ELSE cross],
             cum |-> [c \in {"shelf", "cross"} |->
                        IF c = "shelf" THEN shelf ELSE NullAdd(cross, shelf)],
             safe_days |-> safe_days]
    ELSE LET cols == tier_columns(row)
             days == [c \in {cols[i] : i \in 1..Len(cols)} |->
                        days_of_cover(tier_quantity(row, c), row.daily_sales,
                                      last_fill(c))]
         IN [cols |-> cols, days |-> days,
             cum |-> calculate_cumulative_days(days, cols),
             safe_days |-> safe_days]

\* when(purchased - safe > 0).then((purchased - safe) * daily_sales).otherwise(0);
\* a null condition takes the otherwise branch
promotable_quantity(row, av) ==
    LET p == av.cum["purchased"]
    IN IF ~p.null /\ p.val - av.safe_days > 0
       THEN (p.val - av.safe_days) * row.daily_sales ELSE 0

\* the three parts and the total, in units of 1 / DsScale
required_purchase_quantity(row, av, overseas_safe_days, toucheng_safe_days) ==
    LET overseas == row.peak * overseas_safe_days * DsScale
        p == av.cum["purchased"]
        fbo == IF p.null THEN NullNum ELSE SomeNum((av.safe_days - p.val) * row.daily_sales)
        transit == row.daily_sales * toucheng_safe_days
        sum == NullAdd(NullAdd(SomeNum(overseas), fbo), SomeNum(transit))
    IN [overseas |-> overseas, fbo |-> fbo, transit |-> transit,
        total |-> IF ~sum.null /\ sum.val > 0 THEN sum.val ELSE 0]

\* (total / daily_sales + purchased).cast(Int64): the cast is strict, so a NaN or
\* an infinite value raises; a null stays null
calculate_purchased_days(row, av, req) ==
    LET p == av.cum["purchased"]
    IN IF p.null THEN [raised |-> FALSE, days |-> NullNum]
       ELSE IF row.daily_sales = 0 THEN [raised |-> TRUE, days |-> NullNum]
       ELSE [raised |-> FALSE,
             days |-> SomeNum((req.total + p.val * row.daily_sales) \div row.daily_sales)]

\* the answers of the batch_create call of the collaboration table
FeishuResponses == {"ok", "failed"}

\* one record per row of the frame
df_to_feishu_records(rows) == {[fields |-> r] : r \in rows}

\* batch_create: on success the records are in the table and response.data is
\* returned; a failed response is logged and None is returned, nothing raises
insert_records_to_feishu(records, response) ==
    [raised |-> FALSE,
     data |-> IF response = "ok" THEN SomeNum(Cardinality(records)) ELSE NullNum,
     created |-> IF response = "ok" THEN records ELSE {}]

records_to_feishu(records, response) == insert_records_to_feishu(records, response)

\* the key columns of the SKU table and of the sales table
SkuKeys == {"Ozon ID", "date", "cluster"}
SalesKeys == {"Ozon ID", "date", "delivery_cluster"}

\* variant: only the left frame's key columns are looked up
join_raises_left_only(left_cols, left_on, right_cols, right_on) == ~(left_on \subseteq left_cols)

\* DataFrame.join raises ColumnNotFoundError when a key column is absent from
\* its frame; the pipelines make no check of their own before joining
join_raises(left_cols, left_on, right_cols, right_on) ==
    ~(left_on \subseteq left_cols /\ right_on \subseteq right_cols)

\* the frames of a run that stopped before calcu_available_days
NoAvailable == [cols |-> <<>>, days |-> <<>>, cum |-> <<>>, safe_days |-> 0]
NoRequired == [overseas |-> 0, fbo |-> NullNum, transit |-> 0, total |-> 0]

\* steps 7 to 20 of run_stock_purchase_to_feishu for the base row; step 14
\* joins the SKU table and the sales table on Ozon ID and date
run_stock_purchase_to_feishu(inp, src, response) ==
    LET overseas_toucheng_inventory_df == fill_null_with_zero(GenoverseasInventory(src))
        merged == basic_stock_fill_seasinventory_toucheng(inp.row,
                                                          overseas_toucheng_inventory_df)
        av == calcu_available_days(merged, inp.safe_days, FALSE)
        req == required_purchase_quantity(merged, av, inp.overseas_safe_days,
                                          inp.toucheng_safe_days)
        fin == calculate_purchased_days(merged, av, req)
        feishu_records == df_to_feishu_records({[ozon |-> merged.ozon,
                                                 required |-> req.total,
                                                 purchased_days |-> fin.days]})
        sent == records_to_feishu(feishu_records, response)
    IN IF join_raises(inp.sku_cols, {"Ozon ID", "date"}, inp.sales_cols, {"Ozon ID", "date"})
       THEN [fn |-> "run_stock_purchase_to_feishu", row |-> merged,
             available |-> NoAvailable, promotable |-> 0, required |-> NoRequired,
             purchased_days |-> NullNum, raised |-> "ColumnNotFoundError",
             response |-> "none", created |-> {}, returned |-> NullNum]
       ELSE [fn |-> "run_stock_purchase_to_feishu", row |-> merged, available |-> av,
             promotable |-> promotable_quantity(merged, av), required |-> req,
             purchased_days |-> fin.days,
             raised |-> IF fin.raised THEN "cast" ELSE IF sent.raised THEN "feishu" ELSE "",
             response |-> IF fin.raised THEN "none" ELSE response,
             created |-> IF fin.raised THEN {} ELSE sent.created,
             returned |-> IF fin.raised \/ sent.raised THEN NullNum
                          ELSE SomeNum(Cardinality(feishu_records))]

\* steps 2.5 to 3 of run_cluster_available_days_to_feishu for the base row,
\* whose cluster safety days are inp.safe_days; step 2.5 joins the SKU table
\* and the sales table on Ozon ID, date and the cluster
run_cluster_available_days_to_feishu(inp, response) ==
    LET av == calcu_available_days(inp.row, FALSE, TRUE)
        c == av.cum["cross"]
        gap == inp.safe_days - c.val
        replenish == IF gap > 0 THEN gap * inp.row.daily_sales ELSE 0
        promotable == IF -gap > 0 THEN (-gap) * inp.row.daily_sales ELSE 0
        feishu_records == df_to_feishu_records({[ozon |-> inp.row.ozon,
                                                 replenish |-> replenish,
                                                 promotable |-> promotable]})
        sent == records_to_feishu(feishu_records, response)
    IN IF join_raises(inp.sku_cols, SkuKeys, inp.sales_cols, SalesKeys)
       THEN [fn |-> "run_cluster_available_days_to_feishu", row |-> inp.row,
             available |-> NoAvailable, replenish |-> 0, promotable |-> 0,
             raised |-> "ColumnNotFoundError", response |-> "none", created |-> {},
             returned |-> NullNum]
       ELSE [fn |-> "run_cluster_available_days_to_feishu", row |-> inp.row,
             available |-> av, replenish |-> replenish, promotable |-> promotable,
             raised |-> IF sent.raised THEN "feishu" ELSE "",
             response |-> response,
             created |-> sent.created,
             returned |-> IF sent.raised THEN NullNum
                          ELSE SomeNum(Cardinality(feishu_records))]

MaxToucheng == 2

StockRows ==
    [ozon : {"s1"}, shelf : {0, 5}, cross : {0, 3}, overseas : {0, 7}, local : {0, 4},
     purchased : {0, 60}, daily_sales : {0, 1, 5}, peak : {0, 3}, transit : {<<>>}]

StockRow0 == [ozon |-> "s1", shelf |-> 5, cross |-> 3, overseas |-> 7, local |-> 4, purchased |-> 60, daily_sales |-> 5, peak |-> 3, transit |-> <<>>]

\* every row with complete tables, one row with tables that lack key columns
StockInputs ==
    [row : StockRows, safe_days : {0, 10}, overseas_safe_days : {2},
     toucheng_safe_days : {3}, sku_cols : {SkuKeys}, sales_cols : {SalesKeys}]
    \cup
    [row : {StockRow0}, safe_days : {10}, overseas_safe_days : {2},
     toucheng_safe_days : {3}, sku_cols : SUBSET SkuKeys, sales_cols : SUBSET SalesKeys]

TouchengDocs ==
    [fnsku : {"s1"}, channel : {"d7", "fast", "slow"}, qty : {SomeNum(2), SomeNum(5)}]
    \cup [fnsku : {"s2"}, channel : {"d7", "fast"}, qty : {SomeNum(2)}]
    \cup [fnsku : {"s1"}, channel : {"fast"}, qty : {NullNum}]

InitStock ==
    /\ stockIn \in StockInputs
    /\ toucheng = EmptyBag
    /\ stockRun = NoCall
    /\ fIn = NoCall
    /\ fOut = NoCall
    /\ IdleShip
    /\ IdleWin
    /\ IdleIo
    /\ IdleFin
    /\ IdleExtra

\* a row is added to the in-transit source table
InsertToucheng ==
    /\ stockRun = NoCall
    /\ BagCardinality(toucheng) < MaxToucheng
    /\ \E d \in TouchengDocs : toucheng' = toucheng (+) SetToBag({d})
    /\ UNCHANGED <<stockIn, stockRun, feeVars, shipVars, winVars, ioVars, finVars, extraVars>>

RunStockPurchase ==
    /\ stockRun = NoCall
    /\ \E response \in FeishuResponses :
          stockRun' = run_stock_purchase_to_feishu(stockIn, toucheng, response)
    /\ feishu' = feishu \cup stockRun'.created
    /\ UNCHANGED <<stockIn, toucheng, mongo, feeVars, shipVars, winVars, finVars, extraVars>>

RunClusterAvailableDays ==
    /\ stockRun = NoCall
    /\ \E response \in FeishuResponses :
          stockRun' = run_cluster_available_days_to_feishu(stockIn, response)
    /\ feishu' = feishu \cup stockRun'.created
    /\ UNCHANGED <<stockIn, toucheng, mongo, feeVars, shipVars, winVars, finVars, extraVars>>

NextStock == InsertToucheng \/ RunStockPurchase \/ RunClusterAvailableDays
SpecStock == InitStock /\ [][NextStock]_vars

(***************************************************************************)
(* The finance roll-up (CreateFinance.py), from the joined frame final_df  *)
(* on: the derived columns, the insert into the operation collection and   *)
(* the write to the collaboration table.  Shares are in hundredths of a    *)
(* percent point, computed in binary64 as the frame library does.          *)
(***************************************************************************)
need_cols == {"quantity", "mb_orders", "mb_models", "op_orders"}

\* f64::round of a double 0 <= d < 2^30: the nearest integer, ties away from 0
float_to_nearest(d) ==
    IF d.m = BigZero THEN 0
    ELSE LET twice == BigShr(d.m, -d.e - 1)[1]
         IN (twice[1] * B30 + twice[2] + 1) \div 2

\* round(2) of v >= 0 is (v * 100.0).round() / 100.0; the integer before the
\* last division is the value in hundredths
round2(v) == float_to_nearest(float_mul(v, float(100)))

\* variant: the share is truncated to 2 decimals
share_truncated(x, total) == IF total > 0 THEN (x * 10000) \div total ELSE 0

\* when(total > 0).then((x / total * 100).round(2)).otherwise(0.00)
share(x, total) ==
    IF total > 0
    THEN LET a == IF x < 0 THEN -x ELSE x
             h == round2(float_mul(float_div(float(a), float(total)), float(100)))
         IN IF x < 0 THEN -h ELSE h
    ELSE 0

NoOut == [total |-> 0, template |-> 0, search |-> 0, natural |-> 0, share_natural |-> 0, share_template |-> 0, share_search |-> 0]

\* steps 9 and 12: the channel quantities and their shares
channel_shares(row) ==
    LET total == row.quantity
        template == row.mb_orders + row.mb_models
        search == row.op_orders
        natural == total - template - search
    IN [total |-> total, template |-> template, search |-> search,
        natural |-> natural,
        share_natural |-> share(natural, total),
        share_template |-> share(template, total),
        share_search |-> share(search, total)]

\* the answers of bulk_write: every insert accepted, or a write error other
\* than a duplicate key on the document
MongoOutcomes == {"ok", "write_error"}

\* the dedup key of a row: md5 of date | Ozon ID
dedup_md5(row) == <<row.date, row.ozon>>

\* _bulk_insert_ignore_duplicates for the one document of the frame: a
\* duplicate key and any other write error are swallowed
bulk_insert_ignore_duplicates(coll, doc, outcome) ==
    LET dup == \E d \in coll : d.dedup_md5 = doc.dedup_md5
        ok == ~dup /\ outcome = "ok"
    IN [coll |-> IF ok THEN coll \cup {doc} ELSE coll,
        inserted |-> IF ok THEN 1 ELSE 0,
        duplicates |-> IF dup THEN 1 ELSE 0]

insert_polars_df_to_mongo(coll, row, out, outcome) ==
    LET res == bulk_insert_ignore_duplicates(coll, [dedup_md5 |-> dedup_md5(row), out |-> out], outcome)
    IN [coll |-> res.coll, inserted |-> res.inserted, duplicates |-> res.duplicates,
        total |-> 1]

\* finance_write2feishu from step 8 on.  Step 8 reads the quantity column
\* before the presence check of step 9 is made.
finance_write2feishu(inp, coll, outcome, response) ==
    LET missing == need_cols \ inp.cols
        raised == IF "quantity" \notin inp.cols THEN "ColumnNotFoundError"
                  ELSE IF missing # {} THEN "KeyError" ELSE ""
        out == IF raised = "" THEN channel_shares(inp.row) ELSE NoOut
        res1 == insert_polars_df_to_mongo(coll, inp.row, out, outcome)
        feishu_records == df_to_feishu_records({[dedup_md5 |-> dedup_md5(inp.row),
                                                 out |-> out]})
        sent == records_to_feishu(feishu_records, response)
    IN [fn |-> "finance_write2feishu", raised |-> raised,
        named |-> IF raised = "KeyError" THEN missing
                  ELSE IF raised = "" THEN {} ELSE {"quantity"},
        out |-> out,
        coll |-> IF raised = "" THEN res1.coll ELSE coll,
        inserted |-> IF raised = "" THEN res1.inserted ELSE 0,
        outcome |-> IF raised = "" THEN outcome ELSE "none",
        response |-> IF raised = "" THEN response ELSE "none",
        created |-> IF raised = "" THEN sent.created ELSE {}]

FinRows ==
    [date : {"2025-08-20"}, ozon : {"o1"}, quantity : {0, 3, 6, 7, 10, 100},
     mb_orders : {0, 1, 8, 30}, mb_models : {0, 1}, op_orders : {0, 1, 5, 20}]

FinRow0 == [date |-> "2025-08-20", ozon |-> "o1", quantity |-> 6, mb_orders |-> 1, mb_models |-> 0, op_orders |-> 1]

FinInputs ==
    {[cols |-> need_cols, row |-> r] : r \in FinRows}
    \cup {[cols |-> c, row |-> FinRow0] : c \in (SUBSET need_cols) \ {need_cols}}

InitFinance ==
    /\ finIn \in FinInputs
    /\ finRun = NoCall
    /\ feishu = {}
    /\ mongo = {}
    /\ fIn = NoCall
    /\ fOut = NoCall
    /\ IdleShip
    /\ IdleWin
    /\ IdleStock
    /\ IdleExtra

\* an earlier run has left a document for the row's key in the collection
EarlierRun ==
    /\ finRun = NoCall
    /\ mongo = {}
    /\ mongo' = {[dedup_md5 |-> dedup_md5(finIn.row), out |-> NoOut]}
    /\ UNCHANGED <<feishu, finVars, feeVars, shipVars, winVars, stockVars, extraVars>>

RunFinance ==
    /\ finRun = NoCall
    /\ \E outcome \in MongoOutcomes, response \in FeishuResponses :
          finRun' = finance_write2feishu(finIn, mongo, outcome, response)
    /\ mongo' = finRun'.coll
    /\ feishu' = feishu \cup finRun'.created
    /\ UNCHANGED <<finIn, feeVars, shipVars, winVars, stockVars, extraVars>>

NextFinance == EarlierRun \/ RunFinance
SpecFinance == InitFinance /\ [][NextFinance]_vars

(***************************************************************************)
(* Properties of the shipping-cost engine                                  *)
(***************************************************************************)
ShipDone == shipRun.fn = "build_grouped_df"
FeeDone  == fOut.fn = "compute_fallback_logistics_fee"
BaseDone == fOut.fn = "new_base_fee_by_volume"

\* C1: every order line of a light-small SKU is charged quantity x flat fee per
\* unit, whatever its volume, hours, date, amount or recorded logistics cost.
C1_LightSmallFlatFee ==
    ShipDone =>
        \A r \in DOMAIN shipRun.rows :
            r.ozon \in default_light_small_ids
                => r.fee = r.qty * light_small_fee_per_unit * MoneyScale

\* a light-small line whose shipment has a positive recorded cost, in a call
\* that gives the SKU a volume of 150 litres
C1_Witness ==
    /\ ShipDone
    /\ \E r \in DOMAIN shipRun.rows :
          /\ r.ozon \in default_light_small_ids
          /\ ~r.logistika.null /\ r.logistika.val > 0
          /\ r.volume = Vol(150000, 0)
          /\ r.qty = 3
          /\ r.fee = 33 * MoneyScale

\* C2: a line that is not light-small and whose shipment has a recorded cost > 0
\* is charged exactly that cost and not the rule-based fallback; the fallback is
\* used only when the recorded cost is absent or not positive.
C2_ActualCostVerbatim ==
    ShipDone =>
        \A r \in DOMAIN shipRun.rows :
            /\ (r.ozon \notin default_light_small_ids
                  /\ ~r.logistika.null /\ r.logistika.val > 0)
                 => (r.fee = r.logistika.val /\ r.path = "actual")
            /\ (r.path = "fallback")
                 => (/\ r.fee = r.fallback
                     /\ (r.logistika.null \/ r.logistika.val <= 0))

\* a normal line charged its recorded 63 roubles although the rules give another fee
C2_Witness ==
    /\ ShipDone
    /\ \E r \in DOMAIN shipRun.rows :
          /\ r.ozon = NormalSku
          /\ r.logistika = SomeNum(63 * MoneyScale)
          /\ r.fee = 63 * MoneyScale
          /\ r.fallback # r.fee

\* C3: every logistics fee is >= 0: per line on each of the three paths, per
\* (date, SKU) group sum, and per-unit average.
C3_FeeNonNegative ==
    ShipDone =>
        /\ \A r \in DOMAIN shipRun.rows : r.fee >= 0 /\ r.fallback >= 0
        /\ \A g \in shipRun.g : g.fee >= 0 /\ g.avg_fee >= 0

\* a fallback line whose amount string carries a minus sign and whose shipment
\* has a negative recorded cost, next to a line on another path
C3_Witness ==
    /\ ShipDone
    /\ \E r \in DOMAIN shipRun.rows :
          /\ r.path = "fallback"
          /\ r.doc.amount.neg
          /\ ~r.logistika.null /\ r.logistika.val < 0
          /\ r.fee > 0
    /\ \E r \in DOMAIN shipRun.rows : r.path # "fallback"
    /\ \E g \in shipRun.g : g.qty > 0 /\ g.avg_fee > 0

VolInRange0To190(v) == ~v.null /\ ~VolNeg(v) /\ VolLe(v, Vol(190000, 0))
VolAbove190(v) == ~v.null /\ ~VolLe(v, Vol(190000, 0))

\* C4: with the default bracket table, every volume in [0, 190] litres matches
\* exactly one bracket, whose fee is returned, and every volume above 190 litres
\* is charged 792.
C4_BracketCoverage ==
    BaseDone =>
        LET M == MatchingBrackets(fIn.volume, default_new_base_fee_brackets)
        IN /\ VolInRange0To190(fIn.volume)
                => /\ Cardinality(M) = 1
                   /\ \A i \in M : fOut.fee = default_new_base_fee_brackets[i][3]
           /\ VolAbove190(fIn.volume) => fOut.fee = 792

\* the calendar order of two dates, by counting days
DayCount(d) == d[1] * 372 + d[2] * 31 + d[3]

RunDone == sumRun.fn = "run" /\ sumRun.raised = ""

\* the records of a group key whose processing day lies in [ref - (n - 1), ref]
DayOf(d) == DayNum(d.date.ymd)
HasDay(d) == d.date.kind = "str" /\ d.date.sep = "-"
InDays(d, ref, n) ==
    HasDay(d) /\ DayNum(ref) - (n - 1) <= DayOf(d) /\ DayOf(d) <= DayNum(ref)
WindowSet == {Windows[i] : i \in 1..Len(Windows)}
MaxWindow == CHOOSE w \in WindowSet : \A v \in WindowSet : w >= v
ExpectedWindowSum(coll, g, ref, w) ==
    BagSum(coll, [d \in DOMAIN coll |-> <<d.sku, d.ozon>> = g /\ InDays(d, ref, w)],
                 [d \in DOMAIN coll |-> toDouble(d.qty)])

\* C6: for every group and every configured window w, sum_w is the sum of the
\* quantity over exactly the group's records whose processing day d satisfies
\* reference_day - (w - 1) <= d <= reference_day; a group appears when it has a
\* record in the largest window.
C6_WindowSums ==
    RunDone =>
        /\ DOMAIN sumRun.df_windows =
              {<<d.sku, d.ozon>> : d \in {e \in DOMAIN orders :
                                            InDays(e, sumRun.cfg.target_date, MaxWindow)}}
        /\ \A g \in DOMAIN sumRun.df_windows : \A w \in WindowSet :
              sumRun.df_windows[g][w] =
                  ExpectedWindowSum(orders, g, sumRun.cfg.target_date, w)

\* records {2025-08-01: 10, 2025-08-05: 5} and reference day 2025-08-07 give
\* 15 for the 7-day window and 5 for the 3-day window
C6_Witness ==
    /\ RunDone
    /\ sumRun.cfg.target_date = D0807
    /\ orders = SetToBag({
          [date |-> RawDate("-", D0801, 0), sku |-> "h1", ozon |-> "o1",
           qty |-> RawStr(10 * MoneyScale), status |-> ""],
          [date |-> RawDate("-", D0805, 1), sku |-> "h1", ozon |-> "o1",
           qty |-> RawStr(5 * MoneyScale), status |-> ""]})
    /\ sumRun.df_windows[<<"h1", "o1">>][7] = 15 * MoneyScale
    /\ sumRun.df_windows[<<"h1", "o1">>][3] = 5 * MoneyScale

\* C7: in the result of one call (quantities >= 0), for every group and any two
\* configured windows w1 < w2, sum_w1 <= sum_w2.
C7_WindowMonotone ==
    RunDone =>
        \A g \in DOMAIN sumRun.df_windows : \A w1, w2 \in WindowSet :
            w1 < w2 => sumRun.df_windows[g][w1] <= sumRun.df_windows[g][w2]

\* a group whose three window sums differ
C7_Witness ==
    /\ RunDone
    /\ \E g \in DOMAIN sumRun.df_windows :
          /\ 0 < sumRun.df_windows[g][3]
          /\ sumRun.df_windows[g][3] < sumRun.df_windows[g][7]
          /\ sumRun.df_windows[g][7] < sumRun.df_windows[g][14]

NotCancelled(coll) == BagFilter(coll, [d \in DOMAIN coll |-> d.status # Cancelled])

\* C8: a cancelled order line contributes to no aggregate: the window sums, the
\* peak daily sales and the per-(date, SKU) sums of build_grouped_df are those of
\* the collection without its cancelled lines.
C8_CancelledExcluded ==
    /\ RunDone =>
          LET clean == run(NotCancelled(orders), sumRun.cfg)
          IN /\ clean.raised = ""
             /\ sumRun.df_windows = clean.df_windows
             /\ sumRun.df_peak = clean.df_peak
    /\ ShipDone =>
          shipRun.g = build_grouped_df(NotCancelled(order_info), accruals,
                                       shipRun.cfg).g

\* the exact sum of the weights, counted in units of 2^emin
RECURSIVE BigShl(_, _)
BigShl(X, j) == IF j = 0 THEN X ELSE BigShl(BigAdd(X, X), j - 1)

MinExp(wts) ==
    LET es == {wts[i].e : i \in {j \in DOMAIN wts : wts[j].m # BigZero}}
    IN CHOOSE x \in es : \A y \in es : x <= y

RECURSIVE WeightSum(_, _, _)
WeightSum(wts, emin, i) ==
    IF i = 0 THEN BigZero
    ELSE BigAdd(WeightSum(wts, emin, i - 1),
                IF wts[i].m = BigZero THEN BigZero
                ELSE BigShl(wts[i].m, wts[i].e - emin))

\* the weights add up to exactly one
WeightsSumToOne(wts) ==
    /\ \E i \in DOMAIN wts : wts[i].m # BigZero
    /\ WeightSum(wts, MinExp(wts), Len(wts)) = Pow2Big(-MinExp(wts))

\* the weights add up to one within 2^-50
WeightsSumNearOne(wts) ==
    /\ \E i \in DOMAIN wts : wts[i].m # BigZero
    /\ LET S == WeightSum(wts, MinExp(wts), Len(wts))
           U == Pow2Big(-MinExp(wts))
           diff == IF BigLt(S, U) THEN BigSub(U, S) ELSE BigSub(S, U)
       IN ~BigLt(Pow2Big(-50 - MinExp(wts)), diff)

\* the top k are min(k, n) windows with the highest rates, all of them when
\* n < k; windows outside get weight 0; all weights are 0 when the top rates are
SelectionAndZeros(r, k, n) ==
    /\ Cardinality(r.top) = Min2(k, n)
    /\ \A i \in r.top : \A j \in (1..n) \ r.top : ~float_lt(r.rate[i], r.rate[j])
    /\ \A j \in (1..n) \ r.top : r.weights[j] = FloatZero
    /\ (\A i \in r.top : r.rate[i] = FloatZero)
          => \A i \in 1..n : r.weights[i] = FloatZero
    /\ k > n => r.top = 1..n

\* C9 as stated: for every group the weights sum to exactly 1 when the top-k
\* rates are not all zero and are all 0 otherwise; windows outside the top k get
\* weight 0; when fewer than k windows exist all of them are selected.
C9_Original ==
    RunDone =>
        \A o \in DOMAIN sumRun.df_daily :
            LET r == sumRun.df_daily[o]
            IN /\ SelectionAndZeros(r, sumRun.cfg.top_k, Len(Windows))
               /\ (\E i \in r.top : r.rate[i] # FloatZero) => WeightsSumToOne(r.weights)

\* C9 (amended): for every group the weights, which are doubles, sum to 1 within
\* 2^-50 when the top-k rates are not all zero and are all 0 otherwise; windows
\* outside the top k get weight 0; when fewer than k windows exist all of them
\* are selected.
C9_WeightNormalization ==
    RunDone =>
        \A o \in DOMAIN sumRun.df_daily :
            LET r == sumRun.df_daily[o]
            IN /\ SelectionAndZeros(r, sumRun.cfg.top_k, Len(Windows))
               /\ (\E i \in r.top : r.rate[i] # FloatZero)
                     => WeightsSumNearOne(r.weights)

\* top_k = 2 of three windows with three different non-zero rates, whose two
\* weights do not add up to exactly one
C9_Witness ==
    /\ RunDone
    /\ sumRun.cfg.top_k = 2
    /\ \E o \in DOMAIN sumRun.df_daily :
          LET r == sumRun.df_daily[o]
          IN /\ Cardinality({r.rate[i] : i \in 1..3} \ {FloatZero}) = 3
             /\ Cardinality(r.top) = 2
             /\ \E j \in 1..3 : r.weights[j] = FloatZero /\ r.rate[j] # FloatZero
             /\ WeightsSumNearOne(r.weights)
             /\ ~WeightsSumToOne(r.weights)

ExpectedDaySum(coll, o, dy) ==
    BagSum(coll, [d \in DOMAIN coll |-> d.ozon = o /\ HasDay(d) /\ DayOf(d) = dy],
                 [d \in DOMAIN coll |-> toDouble(d.qty)]) \div MoneyScale

\* C10: for every group, max_daily_sales is the maximum over the calendar days d
\* with reference_day - (days_back - 1) <= d <= reference_day of the sum of the
\* quantity of the group's records on day d; records outside never influence it.
C10_PeakDailySales ==
    RunDone =>
        LET ref == sumRun.cfg.target_date
            n == sumRun.cfg.peak_days_back
            days == (DayNum(ref) - (n - 1))..DayNum(ref)
        IN /\ DOMAIN sumRun.df_peak =
                 {d.ozon : d \in {e \in DOMAIN orders : InDays(e, ref, n)}}
           /\ \A o \in DOMAIN sumRun.df_peak :
                 /\ \E dy \in days : sumRun.df_peak[o] = ExpectedDaySum(orders, o, dy)
                 /\ \A dy \in days : sumRun.df_peak[o] >= ExpectedDaySum(orders, o, dy)

\* two records of one day summing to 15 beat a single record of 10 on another
\* day, with a record outside the 3-day lookback left out
C10_Witness ==
    /\ RunDone
    /\ sumRun.cfg.target_date = D0807
    /\ sumRun.cfg.peak_days_back = 3
    /\ "o1" \in DOMAIN sumRun.df_peak
    /\ sumRun.df_peak["o1"] = 15
    /\ \E d \in DOMAIN orders : d.ozon = "o1" /\ DayOf(d) = DayNum(D0807)
    /\ BagCardinality(orders) = 3

(***************************************************************************)
(* Properties of the stock pipeline                                        *)
(***************************************************************************)
StockRan == stockRun.fn = "run_stock_purchase_to_feishu"
ClusterRan == stockRun.fn = "run_cluster_available_days_to_feishu"
StockDone == StockRan /\ stockRun.raised # "ColumnNotFoundError"
ClusterDone == ClusterRan /\ stockRun.raised # "ColumnNotFoundError"
TierSet(av) == {av.cols[i] : i \in 1..Len(av.cols)}

\* C11: after calcu_available_days, for every tier and every row with
\* daily_sales = 0, the tier's days of cover is exactly 0 (never null), before and
\* after the accumulation, whatever the tier quantity is.
C11_DivisionSafety ==
    (StockDone \/ ClusterDone) /\ stockRun.row.daily_sales = 0 =>
        \A c \in TierSet(stockRun.available) :
            /\ stockRun.available.days[c] = SomeNum(0)
            /\ stockRun.available.cum[c] = SomeNum(0)

\* C12: in the non-cluster variant the first cumulative column is its own days of
\* cover, each later one is its own days of cover plus the preceding cumulative
\* column, in the order shelf, cross, overseas, inbound tiers, local, purchased,
\* and each is a number >= the preceding cumulative column.
C12_CumulativeMonotone ==
    StockDone =>
        LET av == stockRun.available
            n == Len(av.cols)
        IN /\ SubSeq(av.cols, 1, 3) = <<"shelf", "cross", "overseas">>
           /\ SubSeq(av.cols, n - 1, n) = <<"local", "purchased">>
           /\ av.cum[av.cols[1]] = av.days[av.cols[1]]
           /\ \A i \in 2..n :
                 /\ av.cum[av.cols[i]] = NullAdd(av.days[av.cols[i]], av.cum[av.cols[i - 1]])
                 /\ ~av.cum[av.cols[i]].null
                 /\ ~av.cum[av.cols[i - 1]].null
                 /\ av.cum[av.cols[i]].val >= av.cum[av.cols[i - 1]].val

SourceQuantity(c) ==
    BagSum(toucheng, [d \in DOMAIN toucheng |->
                         d.fnsku = stockIn.row.ozon /\ d.channel = c /\ ~d.qty.null],
                     [d \in DOMAIN toucheng |-> d.qty.val])

\* C14: for every in-transit channel, the quantity used for the channel's days of
\* cover equals the summed quantity of the channel in the source table for the
\* SKU, also when the source contains several channels.
C14_TransitQuantities ==
    StockDone =>
        \A c \in {"d7", "fast", "slow"} :
            (IF c \in DOMAIN stockRun.row.transit THEN stockRun.row.transit[c] ELSE 0)
               = SourceQuantity(c)

(***************************************************************************)
(* Properties of the finance roll-up and of the writes                     *)
(***************************************************************************)
FinDone == finRun.fn = "finance_write2feishu"
Derived == FinDone /\ finRun.raised = ""
ShareSum == finRun.out.share_natural + finRun.out.share_template + finRun.out.share_search

\* C15 as stated: the three shares, each rounded to 2 decimals, sum to at most 100.
C15_Original == Derived => ShareSum <= 10000

\* C15: the three shares, each rounded to 2 decimals, sum to 100 within 0.01
\* when the total quantity is positive, and to 0 otherwise.
C15_ShareSum ==
    Derived => IF finRun.out.total > 0 THEN ShareSum \in 9999..10001 ELSE ShareSum = 0

\* all three shares are rounded up and the sum is 100.01
C15_Witness ==
    /\ Derived
    /\ finRun.out.total > 0
    /\ finRun.out.natural > 0 /\ finRun.out.template > 0 /\ finRun.out.search > 0
    /\ ShareSum = 10001

\* x / total x 100 rounded to 2 decimals (half away from zero), in hundredths,
\* by exact integer arithmetic
ExactShare(x, total) ==
    LET a == IF x < 0 THEN -x ELSE x
        h == (2 * 10000 * a + total) \div (2 * total)
    IN IF x < 0 THEN -h ELSE h

\* C16: with total 0 all shares are 0; with total > 0 each share is the channel
\* quantity / total x 100 rounded to 2 decimals, natural = total - template -
\* search, and every share lies between 0 and 100; total 100, template 30,
\* search 20 give 50, 30, 20.
C16_ChannelShares ==
    Derived =>
        LET o == finRun.out
            r == finIn.row
        IN /\ o.total = r.quantity
           /\ o.template = r.mb_orders + r.mb_models
           /\ o.search = r.op_orders
           /\ o.natural = o.total - o.template - o.search
           /\ o.total = 0 =>
                 o.share_natural = 0 /\ o.share_template = 0 /\ o.share_search = 0
           /\ o.total > 0 =>
                 /\ o.share_natural = ExactShare(o.natural, o.total)
                 /\ o.share_template = ExactShare(o.template, o.total)
                 /\ o.share_search = ExactShare(o.search, o.total)
           /\ \A s \in {o.share_natural, o.share_template, o.share_search} :
                 0 <= s /\ s <= 10000
           /\ (o.total = 100 /\ o.template = 30 /\ o.search = 20) =>
                 /\ o.share_natural = 5000
                 /\ o.share_template = 3000
                 /\ o.share_search = 2000

\* C17: when a column of the required set is absent the run fails with a
\* KeyError naming the missing columns, for each required column, and nothing is
\* written.
C17_MissingColumnKeyError ==
    FinDone /\ finIn.cols # need_cols =>
        /\ finRun.raised = "KeyError"
        /\ finRun.named = need_cols \ finIn.cols
        /\ finRun.inserted = 0
        /\ finRun.created = {}
        /\ feishu = {}

FinDoc == [dedup_md5 |-> dedup_md5(finIn.row), out |-> finRun.out]

\* C18: a finance run either has written the complete derived table to the
\* operation collection and to the collaboration table, or has aborted before
\* any of the two was written.
C18_NoPartialSuccess ==
    FinDone =>
        \/ /\ finRun.raised = ""
           /\ FinDoc \in mongo
           /\ [fields |-> FinDoc] \in feishu
        \/ /\ finRun.raised # ""
           /\ finRun.inserted = 0
           /\ finRun.created = {}

\* C19: when the batch-create call of the collaboration table fails, the run
\* raises and reports no record count.
C19_FailureRaises ==
    (StockDone \/ ClusterDone) /\ stockRun.response = "failed" =>
        stockRun.raised # "" /\ stockRun.returned.null

(***************************************************************************)
(* Unparseable processing dates                                            *)
(***************************************************************************)
\* C20: a record whose processing-date string cannot be parsed is outside every
\* window: the aggregation does not raise because of it, and the window sums
\* are the sums over the records with a parseable date.
C20_UnparseableDateExcluded ==
    sumRun.fn = "run" /\ (\E d \in DOMAIN orders : d.date.kind = "str" /\ ~HasDay(d)) =>
        /\ sumRun.raised # "dateFromString"
        /\ sumRun.raised = "" =>
              \A g \in DOMAIN sumRun.df_windows : \A w \in WindowSet :
                  sumRun.df_windows[g][w] =
                      ExpectedWindowSum(orders, g, sumRun.cfg.target_date, w)

(***************************************************************************)
(* Missing join keys in the inventory pipelines                            *)
(***************************************************************************)
\* the key columns the run's join needs and does not find
MissingKeys ==
    IF StockRan THEN ({"Ozon ID", "date"} \ stockIn.sku_cols) \cup ({"Ozon ID", "date"} \ stockIn.sales_cols)
    ELSE (SkuKeys \ stockIn.sku_cols) \cup (SalesKeys \ stockIn.sales_cols)

NothingWritten ==
    /\ stockRun.available = NoAvailable
    /\ stockRun.created = {}
    /\ stockRun.returned.null
    /\ feishu = {}

MaxNow == 3
MaxIssued == 3
AppIds == {"app1", "app2"}
Domains == {"feishu", "lark"}
\* the lifetimes, in seconds, the token endpoint answers with
Expires == {1, 2}
NoCache == [kind |-> "none", app_id |-> "", domain |-> "", expire_at |-> 0, token |-> 0]
CorruptCache == [kind |-> "corrupt", app_id |-> "", domain |-> "", expire_at |-> 0, token |-> 0]
\* answers of the token endpoint: code 0 with a lifetime, a non-zero code, an HTTP error
ApiResponses == [status : {"ok"}, code : {0}, expire : Expires] \cup [status : {"ok"}, code : {1}, expire : {0}] \cup [status : {"http_error"}, code : {0}, expire : {0}]
\* outcomes of writing the cache file
WriteOutcomes == {"ok", "open_failed", "dump_failed"}

\* resp.raise_for_status(), the code check, expire_at = int(time.time()) + expire; n names the token
fetch_tenant_token(app_id, domain, resp, t, n) == IF resp.status # "ok" THEN [raised |-> "HTTPError", data |-> NoCache] ELSE IF resp.code # 0 THEN [raised |-> "RuntimeError", data |-> NoCache] ELSE [raised |-> "none", data |-> [kind |-> "token", app_id |-> app_id, domain |-> domain, expire_at |-> t + resp.expire, token |-> n]]

\* None when the file is missing or json.load raises
load_cache(file) == IF file.kind = "token" THEN file ELSE NoCache

\* write errors are swallowed: a failed open leaves the file, a failed dump leaves it truncated
save_cache(file, data, w) == IF w = "ok" THEN data ELSE IF w = "open_failed" THEN file ELSE CorruptCache

\* variant: the application id is not compared
cache_valid_any_app(cached, app_id, domain, t) == cached.kind = "token" /\ cached.domain = domain /\ cached.expire_at > t

\* the condition of the re-use branch (expire_at is an int in every file this script writes)
cache_valid(cached, app_id, domain, t) == cached.kind = "token" /\ cached.app_id = app_id /\ cached.domain = domain /\ cached.expire_at > t

get_tenant_token(file, app_id, domain, t, resp, w, n) ==
    LET cached == load_cache(file)
        fetched == fetch_tenant_token(app_id, domain, resp, t, n)
        base == [fn |-> "get_tenant_token", app_id |-> app_id, domain |-> domain, now |-> t, pre |-> file, write |-> w]
    IN  IF cache_valid(cached, app_id, domain, t)
        THEN base @@ [api_called |-> FALSE, raised |-> "none", returned |-> cached, file |-> file]
        ELSE IF fetched.raised # "none"
        THEN base @@ [api_called |-> TRUE, raised |-> fetched.raised, returned |-> NoCache, file |-> file]
        ELSE base @@ [api_called |-> TRUE, raised |-> "none", returned |-> fetched.data, file |-> save_cache(file, fetched.data, w)]

tokRest == <<feeVars, shipVars, winVars, stockVars, ioVars, finVars, ozVars, pageVars, repVars>>

InitToken ==
    /\ IdleOld
    /\ IdleRep
    /\ IdleOz
    /\ IdlePages
    /\ now = 0
    /\ cache = NoCache
    /\ issued = 0
    /\ tokRun = NoCall

\* a second passes
Tick ==
    /\ now < MaxNow
    /\ now' = now + 1
    /\ UNCHANGED <<cache, issued, tokRun, tokRest>>

RunGetTenantToken ==
    /\ issued < MaxIssued
    /\ \E app_id \in AppIds, domain \in Domains, resp \in ApiResponses, w \in WriteOutcomes :
          /\ tokRun' = get_tenant_token(cache, app_id, domain, now, resp, w, issued + 1)
          /\ cache' = tokRun'.file
          /\ issued' = IF tokRun'.api_called /\ tokRun'.raised = "none" THEN issued + 1 ELSE issued
    /\ UNCHANGED <<now, tokRest>>

NextToken == Tick \/ RunGetTenantToken

SpecToken == InitToken /\ [][NextToken]_vars

TokenRan == tokRun.fn = "get_tenant_token"
TokenReturned == TokenRan /\ tokRun.raised = "none"
\* the cache file held a token for the same app_id and domain with expire_at later than now
HeldValid == tokRun.pre.kind = "token" /\ tokRun.pre.app_id = tokRun.app_id /\ tokRun.pre.domain = tokRun.domain /\ tokRun.pre.expire_at > tokRun.now
ReuseExactly == (~tokRun.api_called <=> HeldValid) /\ (~tokRun.api_called => tokRun.returned = tokRun.pre /\ cache = tokRun.pre)
NeverExpired == TokenReturned => tokRun.returned.kind = "token" /\ tokRun.returned.expire_at > tokRun.now

\* C22 as stated: re-use exactly for a matching unexpired cached token; otherwise a new token is
\* requested and after the return the cache holds it; a returned token is not expired at return.
C22_Original == TokenRan => ReuseExactly /\ NeverExpired /\ (TokenReturned /\ tokRun.api_called => cache = tokRun.returned)

\* C22 amended: as above, but the cache holds the new token only when the cache file could be
\* written; a failed write is ignored and leaves the old file or an unreadable one.
C22_TokenCache == TokenRan => ReuseExactly /\ NeverExpired /\ (TokenReturned /\ tokRun.api_called => cache = save_cache(tokRun.pre, tokRun.returned, tokRun.write)) /\ (TokenReturned /\ tokRun.api_called /\ tokRun.write = "ok" => cache = tokRun.returned)

\* a fresh token was returned for an app other than the cached, unexpired one, and the write failed
C22_Witness == TokenReturned /\ tokRun.api_called /\ tokRun.write # "ok" /\ tokRun.pre.kind = "token" /\ tokRun.pre.expire_at > tokRun.now /\ tokRun.pre.app_id # tokRun.app_id /\ cache # tokRun.returned

(***************************************************************************)
(* OzonClient (src/ozon_ads_pipeline_full/src/ozon_client.py): credential  *)
(* rotation and the request loop of _request_json under its tenacity       *)
(* retry.  A credential is named by its index in self.creds.               *)
(***************************************************************************)
MaxCreds == 3
\* stop_after_attempt(3)
StopAfterAttempt == 3
\* outcomes of POST /api/client/token: a token, or 429 / RequestException / no access_token
TokenOutcomes == {"ok", "fail"}
\* answers to session.request: status codes, or a RequestException raised by the transport
Statuses == {"200", "401", "429", "500", "exception"}
NoReq == [sent |-> FALSE, cid |-> 0, tok |-> 0, cred_idx |-> 0]
IdleCall == [pc |-> "idle", attempt |-> 0, tried |-> 0, sent |-> 0, n429 |-> 0, first |-> 0, result |-> "none"]

advance_cred(c, n) == [c EXCEPT !.cred_idx = (c.cred_idx + 1) % n]

\* rotate_header=True: the client-id header is set before the token is requested
fetch_token_for_current(c, o) == [c EXCEPT !.cid = c.cred_idx, !.tok = IF o = "ok" THEN c.cred_idx ELSE c.tok]

rotate_credential_and_fetch_token(c, n, o) == fetch_token_for_current(advance_cred(c, n), o)

\* refresh the expired token, else rotate once, else RuntimeError
ensure_token(c, n, expired, o1, o2) == IF ~expired THEN [client |-> c, raised |-> FALSE] ELSE IF o1 = "ok" THEN [client |-> fetch_token_for_current(c, "ok"), raised |-> FALSE] ELSE [client |-> rotate_credential_and_fetch_token(fetch_token_for_current(c, "fail"), n, o2), raised |-> o2 # "ok"]

\* variant: one more pass of the loop
loop_continues_once_more(tried, n) == tried <= n

\* while tried_creds < len(self.creds)
loop_continues(tried, n) == tried < n

\* tenacity: a RequestException starts the call again until the third attempt has failed
retry(cl) == IF cl.attempt < StopAfterAttempt THEN [cl EXCEPT !.pc = "ensure", !.attempt = cl.attempt + 1, !.tried = 0] ELSE [cl EXCEPT !.pc = "done", !.result = "RetryError"]

\* lines 111-123: a 429 counts the credential and rotates; other statuses end the pass
respond(c, cl, n, status, o) == IF status = "429" THEN [client |-> rotate_credential_and_fetch_token(c, n, o), call |-> [cl EXCEPT !.pc = "send", !.tried = cl.tried + 1, !.n429 = cl.n429 + 1]] ELSE IF status = "200" THEN [client |-> c, call |-> [cl EXCEPT !.pc = "done", !.result = "ok"]] ELSE [client |-> c, call |-> retry(cl)]

\* lines 102-109: refresh the current credential's token, else rotate, else raise for the 401
on_401(c, cl, n, o1, o2) == IF o1 = "ok" THEN [client |-> fetch_token_for_current(c, "ok"), call |-> [cl EXCEPT !.pc = "resend"]] ELSE IF o2 = "ok" THEN [client |-> rotate_credential_and_fetch_token(fetch_token_for_current(c, "fail"), n, "ok"), call |-> [cl EXCEPT !.pc = "resend"]] ELSE [client |-> rotate_credential_and_fetch_token(fetch_token_for_current(c, "fail"), n, "fail"), call |-> retry(cl)]

request_of(c) == [sent |-> TRUE, cid |-> c.cid, tok |-> c.tok, cred_idx |-> c.cred_idx]

ozRest == <<feeVars, shipVars, winVars, stockVars, ioVars, finVars, tokVars, pageVars, repVars>>

\* the constructor succeeded: credential k is the first whose token could be fetched
InitOzon ==
    /\ IdleOld
    /\ IdleRep
    /\ IdleTok
    /\ IdlePages
    /\ creds \in 1..MaxCreds
    /\ \E k \in 0..(creds - 1) : client = [cred_idx |-> k, cid |-> k, tok |-> k]
    /\ call = IdleCall
    /\ lastReq = NoReq

Call ==
    /\ call.pc = "idle"
    /\ call' = [IdleCall EXCEPT !.pc = "ensure", !.attempt = 1]
    /\ lastReq' = NoReq
    /\ UNCHANGED <<creds, client, ozRest>>

EnsureToken ==
    /\ call.pc = "ensure"
    /\ \E expired \in BOOLEAN, o1 \in TokenOutcomes, o2 \in TokenOutcomes :
          LET e == ensure_token(client, creds, expired, o1, o2)
          IN  /\ client' = e.client
              /\ call' = IF e.raised THEN [call EXCEPT !.pc = "done", !.result = "RuntimeError"] ELSE [call EXCEPT !.pc = "send", !.tried = 0]
    /\ UNCHANGED <<creds, lastReq, ozRest>>

\* line 100
Request100 ==
    /\ call.pc = "send"
    /\ loop_continues(call.tried, creds)
    /\ \E status \in Statuses, o1 \in TokenOutcomes, o2 \in TokenOutcomes :
          LET cl == [call EXCEPT !.sent = call.sent + 1, !.first = IF call.sent = 0 THEN client.cred_idx ELSE call.first]
              r == IF status = "exception" THEN [client |-> client, call |-> retry(cl)] ELSE IF status = "401" THEN on_401(client, cl, creds, o1, o2) ELSE respond(client, cl, creds, status, o1)
          IN  /\ lastReq' = request_of(client)
              /\ client' = r.client
              /\ call' = r.call
    /\ UNCHANGED <<creds, ozRest>>

\* lines 104 and 109
Request104 ==
    /\ call.pc = "resend"
    /\ \E status \in Statuses, o \in TokenOutcomes :
          LET cl == [call EXCEPT !.sent = call.sent + 1]
              r == IF status = "exception" THEN [client |-> client, call |-> retry(cl)] ELSE respond(client, cl, creds, status, o)
          IN  /\ lastReq' = request_of(client)
              /\ client' = r.client
              /\ call' = r.call
    /\ UNCHANGED <<creds, ozRest>>

\* line 125
RaiseRateLimit ==
    /\ call.pc = "send"
    /\ ~loop_continues(call.tried, creds)
    /\ call' = [call EXCEPT !.pc = "done", !.result = "RateLimitError"]
    /\ UNCHANGED <<creds, client, lastReq, ozRest>>

\* the caller goes on; the client is kept for the next call
Return ==
    /\ call.pc = "done"
    /\ call' = [call EXCEPT !.pc = "idle"]
    /\ UNCHANGED <<creds, client, lastReq, ozRest>>

NextOzon == Call \/ EnsureToken \/ Request100 \/ Request104 \/ RaiseRateLimit \/ Return

SpecOzon == InitOzon /\ [][NextOzon]_vars

\* every request gets its answer or its timeout, and the code between two requests runs on
SpecOzonFair == SpecOzon /\ WF_vars(EnsureToken) /\ WF_vars(Request100) /\ WF_vars(Request104) /\ WF_vars(RaiseRateLimit)

Only429 == call.sent > 0 /\ call.n429 = call.sent
\* while only 429s were answered, each of them moved cred_idx to the next credential
RotatedEach429 == Only429 /\ call.pc \in {"send", "done"} => client.cred_idx = (call.first + call.n429) % creds /\ client.cid = client.cred_idx
RateLimited == (call.result = "RateLimitError" => call.n429 >= creds) /\ (call.pc = "done" /\ Only429 => call.result = "RateLimitError" /\ call.sent = creds)
\* a call sends at most two requests for each credential in each of its attempts
SentBounded == call.sent <= 2 * creds * StopAfterAttempt /\ call.attempt <= StopAfterAttempt /\ call.tried <= creds

\* C23: a 429 moves to the next credential and the request is sent again; every call ends; a call
\* whose requests were all answered 429 raises RateLimitError after exactly len(creds) requests.
C23_RateLimitTermination == [](RotatedEach429 /\ RateLimited /\ SentBounded) /\ (call.pc = "ensure" ~> call.pc = "done")

\* all credentials were rate limited in one call of a client with several credentials
C23_Witness == creds >= 2 /\ call.pc = "done" /\ call.result = "RateLimitError" /\ Only429 /\ call.sent = creds

\* C24: whenever a request is sent, the client-id header and the Authorization token both belong
\* to the credential at cred_idx.
C24_HeaderTokenTogether == lastReq.sent => lastReq.cid = lastReq.cred_idx /\ lastReq.tok = lastReq.cred_idx

(***************************************************************************)
(* Pagination loops of the Feishu readers: fetch_field_schema and          *)
(* search_records (src/utils/feishu_records_polars.py and                  *)
(* src/utils/feishu_records_schema_polars.py).  Page token 0 is the empty  *)
(* string, the first page; the page asked for with token t holds record t. *)
(***************************************************************************)
MaxPages == 3
MaxToken == 3
PageFns == {"fetch_field_schema", "search_records"}
InvalidPageToken == 1254030
\* a failure with its code, or a page with its next token and has_more
PageResponses == [ok : {FALSE}, code : {InvalidPageToken, 1}, next : {0}, has_more : {"none"}] \cup [ok : {TRUE}, code : {0}, next : 0..MaxToken, has_more : {"true", "false", "none"}]
NoPages == [fn |-> "none", pc |-> "idle", max_pages |-> 0, page_token |-> 0, seen |-> {}, page_no |-> 0, items |-> <<>>, schema |-> {}, why |-> "none"]

\* variant: the page budget is compared for equality
max_pages_reached_eq(page_no, max_pages) == page_no = max_pages

\* if page_no >= max_pages
max_pages_reached(page_no, max_pages) == page_no >= max_pages

\* a failed response: InvalidPageToken with a token restarts from the first page, else RuntimeError
page_failed(pg, resp) == IF resp.code = InvalidPageToken /\ pg.page_token # 0 THEN [pg EXCEPT !.page_token = 0] ELSE [pg EXCEPT !.pc = "raised", !.why = "error"]

\* the three stops of fetch_field_schema; the token is recorded before the page budget is looked at
schema_next(pg, resp) == IF resp.next = 0 THEN [pg EXCEPT !.pc = "returned", !.why = "no_next"] ELSE IF resp.next \in pg.seen THEN [pg EXCEPT !.pc = "returned", !.why = "repeat"] ELSE IF max_pages_reached(pg.page_no, pg.max_pages) THEN [pg EXCEPT !.seen = pg.seen \cup {resp.next}, !.page_token = resp.next, !.pc = "returned", !.why = "max_pages"] ELSE [pg EXCEPT !.seen = pg.seen \cup {resp.next}, !.page_token = resp.next]

\* the stops of search_records; has_more False also ends the loop
search_next(pg, resp) == IF resp.next = 0 \/ resp.has_more = "false" THEN [pg EXCEPT !.pc = "returned", !.why = "no_next"] ELSE IF resp.next \in pg.seen THEN [pg EXCEPT !.pc = "returned", !.why = "repeat"] ELSE IF max_pages_reached(pg.page_no, pg.max_pages) THEN [pg EXCEPT !.pc = "returned", !.why = "max_pages"] ELSE [pg EXCEPT !.seen = pg.seen \cup {resp.next}, !.page_token = resp.next]

\* one pass of while True
page_pass(pg, resp) ==
    LET counted == [pg EXCEPT !.page_no = pg.page_no + 1]
        got == [counted EXCEPT !.items = Append(pg.items, pg.page_token), !.schema = pg.schema \cup {pg.page_token}]
    IN  IF ~resp.ok THEN page_failed(counted, resp)
        ELSE IF pg.fn = "fetch_field_schema" THEN schema_next(got, resp)
        ELSE search_next(got, resp)

pageRest == <<feeVars, shipVars, winVars, stockVars, ioVars, finVars, tokVars, ozVars, repVars>>

InitPages ==
    /\ IdleOld
    /\ IdleRep
    /\ IdleTok
    /\ IdleOz
    /\ pages = NoPages

\* a reader is called with its page budget
StartPages ==
    /\ pages.pc # "loop"
    /\ \E fn \in PageFns, m \in 1..MaxPages : pages' = [NoPages EXCEPT !.fn = fn, !.pc = "loop", !.max_pages = m]
    /\ UNCHANGED pageRest

PagePass ==
    /\ pages.pc = "loop"
    /\ \E resp \in PageResponses : pages' = page_pass(pages, resp)
    /\ UNCHANGED pageRest

NextPages == StartPages \/ PagePass

SpecPages == InitPages /\ [][NextPages]_vars

\* every request to the table API is answered
SpecPagesFair == SpecPages /\ WF_vars(PagePass)

PagesEnded == pages.pc \in {"returned", "raised"}
\* at most one request beyond the page budget is made, and a loop that returns names its stop
PagesBounded == pages.page_no <= pages.max_pages + 1 /\ (pages.pc = "returned" => pages.why \in {"no_next", "repeat", "max_pages"}) /\ (pages.pc = "returned" /\ pages.why = "max_pages" => pages.page_no >= pages.max_pages)

\* C25: both pagination loops end for every sequence of responses: on a page without a next
\* token, on a repeated token, or when the page budget is used up (or with the API's error).
C25_PaginationTerminates == []PagesBounded /\ (pages.pc = "loop" ~> PagesEnded)

\* a loop went on after an InvalidPageToken restart and was stopped by its page budget
C25_Witness == pages.pc = "returned" /\ pages.why = "max_pages" /\ pages.page_no = pages.max_pages + 1 /\ pages.max_pages >= 2

NoRecordTwice == \A i, j \in 1..Len(pages.items) : i # j => pages.items[i] # pages.items[j]

\* C27: the list search_records returns holds no record twice, restarts included.
C27_NoRecordTwice == pages.fn = "search_records" /\ pages.pc = "returned" => NoRecordTwice

\* C26: after a second run for the same (date, SKU) key whose insert was accepted without a write
\* error, the collection holds exactly one document for the key, with the second run's values.
C26_LatestValuesStored == finRun # NoCall /\ finRun.raised = "" /\ finRun.outcome = "ok" => mongo = {[dedup_md5 |-> dedup_md5(finIn.row), out |-> finRun.out]}

ShipRows == shipRun.rows
LinesOf(sh) == {r \in DOMAIN ShipRows : r.shipment = sh}
CostRecorded(sh) == \A r \in LinesOf(sh) : ~r.logistika.null /\ r.logistika.val > 0 /\ r.ozon \notin default_light_small_ids
FeeOfShipment(sh) == BagSum(ShipRows, [r \in DOMAIN ShipRows |-> r.shipment = sh], [r \in DOMAIN ShipRows |-> r.fee])

\* C28: for every shipment with a recorded positive logistics cost and no light-small line, the
\* fees of its order lines sum to the recorded cost, for one line as for several.
C28_ShipmentFeeSum == shipRun # NoCall => \A sh \in {r.shipment : r \in DOMAIN ShipRows} : CostRecorded(sh) => \A r \in LinesOf(sh) : FeeOfShipment(sh) = r.logistika.val

VolPlain(v) == ~v.null /\ ~VolNeg(v)
\* C29: with the default brackets the base fee does not decrease when the volume grows, and no
\* volume below 190 litres is charged the last bracket's 792.
C29_FeeMonotone == BaseDone /\ VolPlain(fIn.volume) => (\A v1 \in VolumeInputs : VolPlain(v1) /\ VolLe(v1, fIn.volume) => new_base_fee_by_volume(v1, default_new_base_fee_brackets) <= fOut.fee) /\ (~VolLe(Vol(190000, 0), fIn.volume) => fOut.fee # 792)

(***************************************************************************)
(* Report runs of the ads pipeline: wait_until_ready and its callers run   *)
(* and run_products_daily (src/ozon_ads_pipeline_full/src).  A string is   *)
(* the sequence of its characters; time is counted in poll intervals.      *)
(***************************************************************************)
\* timeout_sec, in poll intervals
MaxWait == 3
MaxUuids == 2
SUCCESS_STATES == {<<"S", "U", "C", "C", "E", "S", "S">>, <<"R", "E", "A", "D", "Y">>, <<"D", "O", "N", "E">>, <<"O", "K">>, <<"o", "k">>}
ERROR == <<"E", "R", "R", "O", "R">>
FAIL == <<"F", "A", "I", "L">>
\* str.upper, character by character
UpperChar(c) == CASE c = "a" -> "A" [] c = "b" -> "B" [] c = "c" -> "C" [] c = "d" -> "D" [] c = "e" -> "E" [] c = "f" -> "F" [] c = "g" -> "G" [] c = "h" -> "H" [] c = "i" -> "I" [] c = "j" -> "J" [] c = "k" -> "K" [] c = "l" -> "L" [] c = "m" -> "M" [] c = "n" -> "N" [] c = "o" -> "O" [] c = "p" -> "P" [] c = "q" -> "Q" [] c = "r" -> "R" [] c = "s" -> "S" [] c = "t" -> "T" [] c = "u" -> "U" [] c = "v" -> "V" [] c = "w" -> "W" [] c = "x" -> "X" [] c = "y" -> "Y" [] c = "z" -> "Z" [] OTHER -> c
upper(str) == [i \in 1..Len(str) |-> UpperChar(str[i])]
\* sub in str
contains(sub, str) == \E i \in 1..(Len(str) - Len(sub) + 1) : SubSeq(str, i, i + Len(sub) - 1) = sub
\* st.get("state") or st.get("Status") or st.get("status") or ""
first_truthy(st) == IF st.state # <<>> THEN st.state ELSE IF st.Status # <<>> THEN st.Status ELSE st.status

\* variant: the state is compared as it was sent
state_of_raw(st) == first_truthy(st)

state_of(st) == upper(first_truthy(st))

\* one pass of the polling loop on the status st
wait_pass(st) == IF state_of(st) \in SUCCESS_STATES THEN "returned" ELSE IF contains(ERROR, state_of(st)) \/ contains(FAIL, state_of(st)) THEN "RuntimeError" ELSE "sleep"

StateWords == {<<"O", "K">>, <<"o", "k">>, <<"S", "u", "c", "c", "e", "s", "s">>, <<"I", "N", "_", "P", "R", "O", "G", "R", "E", "S", "S">>, <<"E", "R", "R", "O", "R">>, <<"f", "a", "i", "l", "e", "d">>}
\* the answers of report_status
StatusInputs == [state : StateWords, Status : {<<>>}, status : {<<>>}] \cup {[state |-> <<>>, Status |-> <<"R", "E", "A", "D", "Y">>, status |-> <<>>], [state |-> <<>>, Status |-> <<>>, status |-> <<"d", "o", "n", "e">>], [state |-> <<>>, Status |-> <<>>, status |-> <<>>]}
\* the uuids to fetch, each named by its place and listed with its campaign
Plans == {<<1>>, <<1, 1>>, <<1, 2>>}
NoReport == [caller |-> "none", plan |-> <<>>, idx |-> 0, pc |-> "idle", elapsed |-> 0, polled |-> <<>>, last |-> [how |-> "none", polled |-> <<>>, elapsed |-> 0], seen |-> {}, downloaded |-> {}]

\* the uuids left after place i of the plan
next_uuid(r, i) == IF i < Len(r.plan) THEN [r EXCEPT !.idx = i + 1, !.pc = "wait", !.elapsed = 0, !.polled = <<>>] ELSE [r EXCEPT !.pc = "finished"]

\* an exception under run is caught for the campaign (except Exception: continue); under
\* run_products_daily it ends the run
raise_in_caller(r, how) ==
    LET later == {j \in (r.idx + 1)..Len(r.plan) : r.plan[j] # r.plan[r.idx]}
        ended == [r EXCEPT !.last = [how |-> how, polled |-> r.polled, elapsed |-> r.elapsed]]
    IN  IF r.caller = "run_products_daily" THEN [ended EXCEPT !.pc = "failed"]
        ELSE IF later = {} THEN [ended EXCEPT !.pc = "finished"]
        ELSE next_uuid(ended, (CHOOSE j \in later : \A k \in later : j <= k) - 1)

repRest == <<feeVars, shipVars, winVars, stockVars, ioVars, finVars, tokVars, ozVars, pageVars>>

InitReport ==
    /\ IdleOld
    /\ IdleTok
    /\ IdleOz
    /\ IdlePages
    /\ \E c \in {"run", "run_products_daily"}, p \in Plans : Len(p) <= MaxUuids /\ (c = "run" \/ p[Len(p)] = 1) /\ report = next_uuid([NoReport EXCEPT !.caller = c, !.plan = p], 0)

\* report_status answers before the deadline; dt intervals pass until the next look at the clock
Poll ==
    /\ report.pc = "wait"
    /\ report.elapsed < MaxWait
    /\ \E st \in StatusInputs, dt \in 1..2 :
          LET r == [report EXCEPT !.polled = Append(report.polled, st)]
          IN  report' = CASE wait_pass(st) = "returned" -> [r EXCEPT !.pc = "download", !.last = [how |-> "returned", polled |-> r.polled, elapsed |-> r.elapsed], !.seen = report.seen \cup {report.idx}]
                          [] wait_pass(st) = "RuntimeError" -> raise_in_caller(r, "RuntimeError")
                          [] OTHER -> [r EXCEPT !.elapsed = report.elapsed + dt]
    /\ UNCHANGED repRest

\* report_status raises (rate limit, HTTP error, retries used up)
PollRaises ==
    /\ report.pc = "wait"
    /\ report.elapsed < MaxWait
    /\ report' = raise_in_caller(report, "RequestError")
    /\ UNCHANGED repRest

\* the deadline has passed at the head of the loop
Timeout ==
    /\ report.pc = "wait"
    /\ report.elapsed >= MaxWait
    /\ report' = raise_in_caller(report, "TimeoutError")
    /\ UNCHANGED repRest

\* client.download_report(u) after the wait has returned
Download ==
    /\ report.pc = "download"
    /\ \E ok \in BOOLEAN :
          LET r == [report EXCEPT !.downloaded = report.downloaded \cup {report.idx}]
          IN  report' = IF ok THEN next_uuid(r, report.idx) ELSE raise_in_caller(r, "DownloadError")
    /\ UNCHANGED repRest

NextReport == Poll \/ PollRaises \/ Timeout \/ Download

SpecReport == InitReport /\ [][NextReport]_vars

\* every status request returns or raises, and the loop sleeps one poll interval per pass
SpecReportFair == SpecReport /\ WF_vars(Poll) /\ WF_vars(Timeout)

SuccessStatus(st) == upper(first_truthy(st)) \in SUCCESS_STATES
FailureStatus(st) == contains(ERROR, upper(first_truthy(st))) \/ contains(FAIL, upper(first_truthy(st)))
Polled == report.last.polled
NoneDecisive(polled, n) == \A i \in 1..n : ~SuccessStatus(polled[i]) /\ ~FailureStatus(polled[i])
LastPolled == Polled[Len(Polled)]
WaitReturned == report.last.how = "returned" => Len(Polled) >= 1 /\ SuccessStatus(LastPolled) /\ NoneDecisive(Polled, Len(Polled) - 1)
WaitRuntimeError == report.last.how = "RuntimeError" => Len(Polled) >= 1 /\ FailureStatus(LastPolled) /\ ~SuccessStatus(LastPolled) /\ NoneDecisive(Polled, Len(Polled) - 1)
WaitTimeoutError == report.last.how = "TimeoutError" => NoneDecisive(Polled, Len(Polled)) /\ report.last.elapsed >= MaxWait
\* while the wait goes on, no polled status was decisive and the deadline bounds the polls
WaitGoesOn == report.pc = "wait" => NoneDecisive(report.polled, Len(report.polled)) /\ Len(report.polled) <= MaxWait
DownloadAfterSuccess == report.downloaded \subseteq report.seen /\ (report.pc = "download" => report.idx \in report.seen /\ report.last.how = "returned")

\* C30: wait_until_ready returns only a success status, the first one; it raises RuntimeError at
\* the first status containing ERROR or FAIL; it raises TimeoutError only after the deadline; every
\* wait whose status requests are answered ends in one of these ways; and a report is downloaded
\* only after a success status was seen for it.
C30_WaitUntilReady == [](WaitReturned /\ WaitRuntimeError /\ WaitTimeoutError /\ WaitGoesOn /\ DownloadAfterSuccess) /\ (\A i \in 1..MaxUuids : (report.pc = "wait" /\ report.idx = i) ~> (report.pc # "wait" \/ report.idx # i))

\* the second report of a run was downloaded after a wait that polled a lower-case success state
C30_Witness == report.idx = 2 /\ report.downloaded = {1, 2} /\ report.last.how = "returned" /\ Len(Polled) >= 2 /\ LastPolled.state = <<"o", "k">>

====
